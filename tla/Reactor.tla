-------------------------------- MODULE Reactor ------------------------------
(***************************************************************************)
(* The reactor (src/src/swirly/sys/EpollReactor.cpp, Reactor.hpp and the   *)
(* muxer over epoll): subscriptions of users to the events of sockets.     *)
(*                                                                         *)
(* Everything runs in one thread.  What wait() returned is worked off      *)
(* event by event, and a callback may do whatever may be done between two  *)
(* polls: close any user's socket, open another with the same descriptor,  *)
(* change what it is interested in.  The events still to be worked off may *)
(* then be about sockets and interests that are no more.  A subscription   *)
(* therefore has an identity, that grows with each use of a descriptor.    *)
(***************************************************************************)
EXTENDS Integers, FiniteSets

CONSTANTS
    Users,      \* owners of a socket, as HttpSess or TcpAcceptor
    NoUser,
    Fds,        \* descriptors, reused when closed
    MaxSid      \* bound on the uses of a descriptor

ReactorAssumption ==
    /\ NoUser \notin Users
    /\ IsFiniteSet(Fds) /\ -1 \notin Fds
    /\ MaxSid \in Nat

VARIABLES
    data,       \* data_: identity, interest and slot of each descriptor
    watch,      \* what epoll watches: descriptors, with identity and interest
    handle,     \* the Handle of each user
    socket,     \* the descriptor of the user's socket
    batch,      \* events that wait() returned and dispatch() has not reached
    running     \* the call of a slot that is under way

vars == <<data, watch, handle, socket, batch, running>>

Events == {"in", "out"}
NoHandle == [fd |-> -1, sid |-> 0]
NoCall == [user |-> NoUser, for |-> NoUser, fd |-> -1, sid |-> 0, events |-> {}]
NoWatch == [sid |-> 0, events |-> {}]

Init ==
    /\ data = [f \in Fds |-> [sid |-> 0, events |-> {}, slot |-> NoUser]]
    /\ watch = [f \in Fds |-> NoWatch]
    /\ handle = [u \in Users |-> NoHandle]
    /\ socket = [u \in Users |-> -1]
    /\ batch = {}
    /\ running = NoCall

\* The thread is in a callback or outside of poll().
CanCall == running # NoCall \/ batch = {}

Open == {socket[u] : u \in Users}

\* A user takes a new socket and subscribes to it.
Subscribe(u, f, events) ==
    LET sid == data[f].sid + 1
    IN /\ CanCall
       /\ handle[u] = NoHandle
       /\ f \notin Open
       /\ sid =< MaxSid
       /\ data' = [data EXCEPT ![f] = [sid |-> sid, events |-> events, slot |-> u]]
       /\ watch' = [watch EXCEPT ![f] = [sid |-> sid, events |-> events]]
       /\ handle' = [handle EXCEPT ![u] = [fd |-> f, sid |-> sid]]
       /\ socket' = [socket EXCEPT ![u] = f]
       /\ UNCHANGED <<batch, running>>

\* epoll refuses a subscription: the identity is used up.
SubscribeFails(u, f) ==
    /\ CanCall
    /\ handle[u] = NoHandle
    /\ f \notin Open
    /\ data[f].sid < MaxSid
    /\ data' = [data EXCEPT ![f].sid = @ + 1]
    /\ UNCHANGED <<watch, handle, socket, batch, running>>

\* The socket is closed, and epoll forgets it.  Most users have reset their
\* handle before, but need not: the descriptor may be another's by then.
Close(u) ==
    /\ CanCall
    /\ socket[u] # -1
    /\ watch' = [watch EXCEPT ![socket[u]] = NoWatch]
    /\ socket' = [socket EXCEPT ![u] = -1]
    /\ UNCHANGED <<data, handle, batch, running>>

\* Handle::reset()
Unsubscribe(u) ==
    LET f == handle[u].fd
    IN /\ CanCall
       /\ handle[u] # NoHandle
       /\ IF data[f].sid = handle[u].sid
          THEN /\ watch' = [watch EXCEPT ![f] = NoWatch]
               /\ data' = [data EXCEPT ![f] = [sid |-> data[f].sid, events |-> {}, slot |-> NoUser]]
          ELSE UNCHANGED <<watch, data>>
       /\ handle' = [handle EXCEPT ![u] = NoHandle]
       /\ UNCHANGED <<socket, batch, running>>

\* Handle::set_events()
SetEvents(u, events) ==
    LET f == handle[u].fd
    IN /\ CanCall
       /\ handle[u] # NoHandle
       /\ data[f].sid = handle[u].sid
       /\ data[f].events # events
       /\ watch[f] # NoWatch     \* else epoll_ctl throws
       /\ watch' = [watch EXCEPT ![f].events = events]
       /\ data' = [data EXCEPT ![f].events = events]
       /\ UNCHANGED <<handle, socket, batch, running>>

-----------------------------------------------------------------------------
(* poll() *)

\* wait() returns some of the watched descriptors with events they are
\* watched for, and the identity that was registered with them.  The user is
\* not in the code; the properties are about it.
Wait ==
    /\ running = NoCall /\ batch = {}
    /\ \E ready \in [Fds -> SUBSET Events] :
        batch' = {[fd |-> f, sid |-> watch[f].sid, user |-> data[f].slot,
                   events |-> ready[f] \intersect watch[f].events] :
                    f \in {g \in Fds : ready[g] \intersect watch[g].events # {}}}
    /\ UNCHANGED <<data, watch, handle, socket, running>>

\* Faulty: the identity is not looked at.
StaleNot(ev) == FALSE

\* The descriptor was subscribed again after the call to wait().
Stale(ev) == data[ev.fd].sid > ev.sid

\* The events that the user is still interested in.
Wanted(ev) == ev.events \intersect data[ev.fd].events

Skip(ev) ==
    /\ running = NoCall
    /\ Stale(ev) \/ Wanted(ev) = {}
    /\ batch' = batch \ {ev}
    /\ UNCHANGED <<data, watch, handle, socket, running>>

Call(ev) ==
    /\ running = NoCall
    /\ ~Stale(ev) /\ Wanted(ev) # {}
    /\ batch' = batch \ {ev}
    /\ running' = [user |-> data[ev.fd].slot, for |-> ev.user, fd |-> ev.fd, sid |-> ev.sid,
                   events |-> Wanted(ev)]
    /\ UNCHANGED <<data, watch, handle, socket>>

\* The slot returns, or throws and is caught.
CallEnds ==
    /\ running # NoCall
    /\ running' = NoCall
    /\ UNCHANGED <<data, watch, handle, socket, batch>>

-----------------------------------------------------------------------------

Next ==
    \/ \E u \in Users :
        \/ \E f \in Fds : \/ \E events \in SUBSET Events \ {{}} : Subscribe(u, f, events)
                          \/ SubscribeFails(u, f)
        \/ Unsubscribe(u) \/ Close(u)
        \/ \E events \in SUBSET Events : SetEvents(u, events)
    \/ Wait
    \/ \E ev \in batch : Skip(ev) \/ Call(ev)
    \/ CallEnds

Spec == Init /\ [][Next]_vars

-----------------------------------------------------------------------------

\* The type invariant: also, epoll watches what the entries say.
TypeOK ==
    /\ data \in [Fds -> [sid : 0..MaxSid, events : SUBSET Events, slot : Users \union {NoUser}]]
    /\ watch \in [Fds -> [sid : 0..MaxSid, events : SUBSET Events]]
    /\ \A f \in Fds : watch[f] = IF f \notin Open \/ data[f].slot = NoUser THEN NoWatch
                                 ELSE [sid |-> data[f].sid, events |-> data[f].events]
    /\ socket \in [Users -> Fds \union {-1}]
    /\ handle \in [Users -> [fd : Fds \union {-1}, sid : 0..MaxSid]]
    /\ batch \subseteq [fd : Fds, sid : 0..MaxSid, user : Users, events : SUBSET Events]
    /\ running \in [user : Users \union {NoUser}, for : Users \union {NoUser},
                    fd : Fds \union {-1}, sid : 0..MaxSid, events : SUBSET Events]

\* While a user has a socket and a handle, the handle controls the subscription
\* of that socket: nothing that another user does with an outdated handle, for
\* an earlier socket of the same descriptor, takes it away, since
\* do_unsubscribe and do_set_events compare the identity.
HandlesAreCurrent ==
    \A u \in Users : handle[u] # NoHandle /\ socket[u] # -1 =>
        /\ handle[u].fd = socket[u]
        /\ data[handle[u].fd].sid = handle[u].sid
        /\ data[handle[u].fd].slot = u

\* dispatch() calls the slot of a user only for a subscription that it still
\* has when the call begins, only if the event was reported for that very
\* subscription and not for an earlier one with the same descriptor, and only
\* with events it is interested in by then.
CallsAreCurrent ==
    [][running' # NoCall /\ running = NoCall =>
        LET u == running'.user
        IN /\ u # NoUser /\ u = running'.for
           /\ handle[u] = [fd |-> running'.fd, sid |-> running'.sid]
           /\ running'.events # {}
           /\ running'.events \subseteq data[running'.fd].events]_vars

\* dispatch() drops an event only if its user is gone or lost interest: a
\* reported event, that would not be reported again if it is edge-triggered,
\* reaches whoever still waits for it.
OnlyStaleEventsAreDropped ==
    [][\A ev \in batch \ batch' : running' = NoCall =>
        \A u \in Users : handle[u] = [fd |-> ev.fd, sid |-> ev.sid] /\ socket[u] = ev.fd =>
            ev.events \intersect data[ev.fd].events = {}]_vars
=============================================================================
