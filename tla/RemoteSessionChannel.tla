---------------------------- MODULE RemoteSessionChannel ----------------------------
(***************************************************************************)
(* remote_session_channel.hpp: peers that advertise a session, watch for   *)
(* those of others, and connect by joining one.  A coroutine of one thread *)
(* per peer runs start_async, stop and connect; the handlers of the watcher*)
(* and of join requests run on threads of the system.  The session that a  *)
(* peer offers is named after the peer.                                    *)
(*                                                                         *)
(* session_lock_ is held by connect from before JoinAsync to its answer,   *)
(* and by the handler of a join request from Accept() until both flags are *)
(* set.  The flags are read without it.                                    *)
(***************************************************************************)
EXTENDS Integers, Sequences

CONSTANTS
    Peers,
    Visible,        \* Visible[p]: the peers whose sessions the watcher of p can see
    Starters,       \* bound: the peers that call start_async while others connect
    NoSession,      \* a null session_
    MaxConnects     \* bound: how often connect of a peer may get as far as JoinAsync

ASSUME VisibleAssumption ==
    Visible \in [Peers -> SUBSET Peers] /\ \A p \in Peers : p \notin Visible[p]
ASSUME BoundAssumption == NoSession \notin Peers /\ MaxConnects \in [Peers -> Nat]

VARIABLES
    started, connected, controller,     \* started_, connected_, is_controller_
    session,        \* whose session session_ and channel_ belong to
    watching,       \* whether the watcher runs
    announced,      \* the sessions its watcher has reported, and not as removed
    list,           \* sessions_
    known,          \* the sessions that a caller may have from SessionList()
    spc,            \* where start_async is: each peer calls it once, at the start
    handler,        \* how far a join_requested that accepts has come
    request,        \* the JoinAsync calls each peer made, the last one being the latest
    alive           \* whether its process runs

search == <<started, watching, announced, list, known>>
link == <<connected, controller, session>>
vars == <<search, link, spc, handler, request, alive>>

\* "creating": in CreateSessionAsync; "exists": the session can be joined, and the
\* coroutine goes on soon; "watching": session_ and channel_ are set, the watcher is
\* started, and started_ is not set; "done" or "failed".
StartPC == {"creating", "exists", "watching", "done", "failed"}
Offers(p) == spc[p] \in {"exists", "watching", "done"}

\* A request is sent to a peer; its handler is waiting for session_lock_; it has
\* accepted or returned without.  It is open while JoinAsync has not returned.
Request == [to : Peers, state : {"sent", "waiting", "accepted", "refused"}, open : BOOLEAN]
Joining(p) == request[p] # <<>> /\ request[p][Len(request[p])].open

\* "accepted": Accept() has returned; "connected": connected_ is set, is_controller_
\* is not.
HandlerPC == {"none", "accepted", "connected"}
Accepting(p) == handler[p] # "none"
LockFree(p) == ~Joining(p) /\ ~Accepting(p)

\* Whoever is no Starter is through start_async, and its watcher runs.
Init ==
    /\ started = [p \in Peers |-> p \notin Starters]
    /\ connected = [p \in Peers |-> FALSE]
    /\ controller = [p \in Peers |-> FALSE]
    /\ session = [p \in Peers |-> IF p \in Starters THEN NoSession ELSE p]
    /\ watching = [p \in Peers |-> p \notin Starters]
    /\ announced = [p \in Peers |-> {}]
    /\ list = [p \in Peers |-> {}]
    /\ known = [p \in Peers |-> {}]
    /\ spc = [p \in Peers |-> IF p \in Starters THEN "creating" ELSE "done"]
    /\ handler = [p \in Peers |-> "none"]
    /\ request = [p \in Peers |-> <<>>]
    /\ alive = [p \in Peers |-> TRUE]
-----------------------------------------------------------------------------------
(* start_async and stop *)

\* stop(): it stops the watcher only if start_async has come to its end.
StopEffect(p) ==
    /\ watching' = [watching EXCEPT ![p] = @ /\ ~started[p]]
    /\ started' = [started EXCEPT ![p] = FALSE]
    /\ list' = [list EXCEPT ![p] = {}]
    /\ UNCHANGED <<announced, known>>

StartGoes(p, from, to) ==
    /\ alive[p]
    /\ spc[p] = from
    /\ spc' = [spc EXCEPT ![p] = to]
    /\ UNCHANGED <<handler, request, alive>>

Created(p) == StartGoes(p, "creating", "exists") /\ UNCHANGED <<search, link>>
CreationFails(p) == StartGoes(p, "creating", "failed") /\ StopEffect(p) /\ UNCHANGED link
StartWatcher(p) ==
    /\ StartGoes(p, "exists", "watching")
    /\ session' = [session EXCEPT ![p] = p]
    /\ watching' = [watching EXCEPT ![p] = TRUE]
    /\ UNCHANGED <<started, announced, list, known, connected, controller>>
SetStarted(p) ==
    /\ StartGoes(p, "watching", "done")
    /\ started' = [started EXCEPT ![p] = TRUE]
    /\ UNCHANGED <<watching, announced, list, known, link>>

Stop(p) ==
    /\ alive[p]
    /\ StopEffect(p)
    /\ UNCHANGED <<link, spc, handler, request, alive>>
-----------------------------------------------------------------------------------
(* The watcher's handlers *)

SessionAdded(p, q) ==
    /\ alive[p] /\ watching[p]
    /\ q \in Visible[p] \ announced[p] /\ Offers(q) /\ alive[q]
    /\ announced' = [announced EXCEPT ![p] = @ \cup {q}]
    /\ list' = [list EXCEPT ![p] = @ \cup {q}]
    /\ known' = [known EXCEPT ![p] = @ \cup {q}]
    /\ UNCHANGED <<started, watching, link, spc, handler, request, alive>>

\* A session goes out of reach.  Erasing what stop() has cleared from the list is
\* erase(end()), which ends the process.
SessionRemoved(p, q) ==
    /\ alive[p] /\ watching[p] /\ q \in announced[p]
    /\ announced' = [announced EXCEPT ![p] = @ \ {q}]
    /\ list' = [list EXCEPT ![p] = @ \ {q}]
    /\ alive' = [alive EXCEPT ![p] = q \in list[p]]
    /\ UNCHANGED <<started, watching, known, link, spc, handler, request>>
-----------------------------------------------------------------------------------
(* Connecting *)

\* JoinAsync returns.
JoinReturns(p) == request' = [request EXCEPT ![p][Len(request[p])].open = FALSE]

\* connect, up to JoinAsync.  The session may be gone from the list by then.
Connect(p, q) ==
    /\ alive[p]
    /\ LockFree(p) /\ ~connected[p]
    /\ q \in known[p]
    /\ Len(request[p]) < MaxConnects[p]
    /\ request' = [request EXCEPT ![p] =
                     Append(@, [to |-> q, state |-> "sent", open |-> TRUE])]
    /\ UNCHANGED <<search, link, spc, handler, alive>>

\* join_requested at the peer that the n-th request of p is for: stop(), ...
JoinRequested(p, n) ==
    LET q == request[p][n].to
    IN  /\ request[p][n].state = "sent"
        /\ alive[q] /\ Offers(q)
        /\ StopEffect(q)
        /\ request' = [request EXCEPT ![p][n].state = "waiting"]
        /\ UNCHANGED <<link, spc, handler, alive>>

Accepts(p, n) ==
    LET q == request[p][n].to
    IN  /\ request[p][n].state = "waiting"
        /\ alive[q]
        /\ request' = [request EXCEPT ![p][n].state = "accepted"]
        /\ handler' = [handler EXCEPT ![q] = "accepted"]
        /\ UNCHANGED <<search, link, spc, alive>>

\* Mutant: the handler does not take session_lock_.
AcceptWithoutLock(p, n) == ~connected[request[p][n].to] /\ Accepts(p, n)
\* Mutant: the handler accepts whoever asks.
AcceptEverybody(p, n) == LockFree(request[p][n].to) /\ Accepts(p, n)

\* ... and under session_lock_, if the peer is not connected, Accept(), ...
Accept(p, n) ==
    /\ LockFree(request[p][n].to)
    /\ ~connected[request[p][n].to]
    /\ Accepts(p, n)

\* ... connected_ = true, ...
SetConnected(q) ==
    /\ alive[q]
    /\ handler[q] = "accepted"
    /\ handler' = [handler EXCEPT ![q] = "connected"]
    /\ connected' = [connected EXCEPT ![q] = TRUE]
    /\ UNCHANGED <<search, controller, session, spc, request, alive>>

\* ... is_controller_ = true and the end.
SetController(q) ==
    /\ alive[q]
    /\ handler[q] = "connected"
    /\ handler' = [handler EXCEPT ![q] = "none"]
    /\ controller' = [controller EXCEPT ![q] = TRUE]
    /\ UNCHANGED <<search, connected, session, spc, request, alive>>

\* The handler returns without accepting: the peer is connected, or Accept() throws.
Refuse(p, n) ==
    LET q == request[p][n].to
    IN  /\ request[p][n].state = "waiting"
        /\ alive[q]
        /\ LockFree(q)
        /\ request' = [request EXCEPT ![p][n].state = "refused"]
        /\ UNCHANGED <<search, link, spc, handler, alive>>

\* Mutant: whoever could not join keeps session_lock_ (it was not a unique_lock).
JoinFailsLocked(p) ==
    /\ alive[p] /\ Joining(p)
    /\ request' = [request EXCEPT ![p][Len(request[p])].state = "refused"]
    /\ UNCHANGED <<search, link, spc, handler, alive>>

\* JoinAsync fails: the request was refused, it or its answer is lost, or nobody
\* answers.  connect reports it and returns false.
JoinFails(p) ==
    /\ alive[p] /\ Joining(p)
    /\ JoinReturns(p)
    /\ UNCHANGED <<search, link, spc, handler, alive>>

\* JoinAsync succeeds, as soon as Accept() was called, and connect comes to its end.
JoinSucceeds(p) ==
    LET last == request[p][Len(request[p])]
    IN  /\ alive[p] /\ Joining(p)
        /\ last.state = "accepted"
        /\ JoinReturns(p)
        /\ StopEffect(p)
        /\ session' = [session EXCEPT ![p] = last.to]
        /\ connected' = [connected EXCEPT ![p] = TRUE]
        /\ controller' = [controller EXCEPT ![p] = FALSE]
        /\ UNCHANGED <<spc, handler, alive>>
-----------------------------------------------------------------------------------
StartStep(p) ==
    Created(p) \/ CreationFails(p) \/ StartWatcher(p) \/ SetStarted(p)

Next ==
    \E p \in Peers :
        \/ StartStep(p) \/ Stop(p)
        \/ \E q \in Peers : SessionAdded(p, q) \/ SessionRemoved(p, q) \/ Connect(p, q)
        \/ \E n \in DOMAIN request[p] : JoinRequested(p, n) \/ Accept(p, n) \/ Refuse(p, n)
        \/ SetConnected(p) \/ SetController(p)
        \/ JoinFails(p) \/ JoinSucceeds(p)

\* A handler goes on when it gets the lock, and JoinAsync returns in the end, if only
\* because it gives up; connect is called again only so often.
Fairness ==
    \A p \in Peers :
        /\ WF_vars(JoinFails(p))
        /\ WF_vars(SetConnected(p) \/ SetController(p))
        /\ \A n \in 1 .. MaxConnects[p] :
              WF_vars(n \in DOMAIN request[p] /\ (Accept(p, n) \/ Refuse(p, n)))

Spec == Init /\ [][Next]_vars /\ Fairness
-----------------------------------------------------------------------------------
(* Properties *)

\* A handler that has called Accept() makes its peer the controller, before its flags
\* say so.
Controls(p) == (connected[p] /\ controller[p]) \/ Accepting(p)

\* is_controller_ "indicates whether this instance is the controller or participant".
\* Whoever takes part in a session was accepted by the peer that controls it (whose
\* flags are set, or will be before session_lock_ is free again), no two take part in
\* the same, and both ends have bound their channel to that session (a controller may
\* have accepted before start_async got as far as that).
RolesAgree ==
    \A p \in Peers : connected[p] \/ Accepting(p) =>
        IF Controls(p) THEN session[p] = p \/ (session[p] = NoSession /\ spc[p] = "exists")
        ELSE LET q == session[p]
             IN  /\ q \in Peers \ {p} /\ Controls(q)
                 /\ \A other \in Peers \ {p} :
                      ~(connected[other] /\ ~Controls(other) /\ session[other] = q)

\* A connection is for good: whatever requests and answers still arrive, a connected
\* peer keeps its role and its session.  Only its flags take a moment to say so: the
\* handler that has set connected_ still has to set is_controller_.
ConnectionIsFinal ==
    [][ \A p \in Peers : connected[p] =>
          /\ connected'[p]
          /\ controller'[p] = (controller[p] \/ (handler[p] = "connected" /\ ~Accepting(p)'))
          /\ session'[p] = session[p] \/ session[p] = NoSession ]_vars

\* Peers that connect to one another each hold their session_lock_ while the other's
\* handler waits for it; in the end every handler returns.
Unanswered(p, n) ==
    /\ n \in DOMAIN request[p]
    /\ request[p][n].state = "waiting" /\ alive[request[p][n].to]
HandlersReturn ==
    \A p \in Peers : \A n \in 1 .. MaxConnects[p] : Unanswered(p, n) ~> ~Unanswered(p, n)
-----------------------------------------------------------------------------------
(* The inductive invariant of the proofs. *)

TypeOK ==
    /\ started \in [Peers -> BOOLEAN] /\ connected \in [Peers -> BOOLEAN]
    /\ controller \in [Peers -> BOOLEAN] /\ watching \in [Peers -> BOOLEAN]
    /\ alive \in [Peers -> BOOLEAN]
    /\ session \in [Peers -> Peers \cup {NoSession}]
    /\ announced \in [Peers -> SUBSET Peers] /\ list \in [Peers -> SUBSET Peers]
    /\ known \in [Peers -> SUBSET Peers]
    /\ spc \in [Peers -> StartPC]
    /\ handler \in [Peers -> HandlerPC]
    /\ request \in [Peers -> Seq(Request)]

\* A peer sees and joins only what its watcher can see, from when it runs.
Watches(p) == spc[p] \in {"watching", "done"}
PeersAreVisible ==
    \A p \in Peers :
        /\ list[p] \subseteq known[p] /\ known[p] \subseteq Visible[p]
        /\ watching[p] \/ known[p] # {} \/ request[p] # <<>> => Watches(p)
        /\ \A n \in DOMAIN request[p] : request[p][n].to \in Visible[p]

\* session_lock_: connect is in JoinAsync once at most, and its peer accepts nobody
\* meanwhile; a handler that accepts finds its peer unconnected and sets the flags one
\* after the other.
LockIsHeld ==
    \A p \in Peers :
        /\ \A n \in DOMAIN request[p] : request[p][n].open => n = Len(request[p])
        /\ Joining(p) => ~connected[p] /\ ~Accepting(p)
        /\ controller[p] => connected[p]
        /\ Accepting(p) => ~controller[p] /\ (connected[p] <=> handler[p] = "connected")

\* Who accepted a request has a session and controls it, and accepted no other peer.
AcceptedBy(p, q) == \E n \in DOMAIN request[p] : request[p][n].to = q /\ request[p][n].state = "accepted"
AcceptedOnce ==
    /\ \A p \in Peers : \A n \in DOMAIN request[p] :
          request[p][n].state \in {"waiting", "accepted"} => Offers(request[p][n].to)
    /\ \A p, q \in Peers : AcceptedBy(p, q) => Controls(q)
    /\ \A p, other, q \in Peers : AcceptedBy(p, q) /\ AcceptedBy(other, q) => p = other

\* A participant's session is one it was accepted in; everybody else's is its own.
SessionsBelong ==
    \A p \in Peers :
        IF connected[p] /\ ~Controls(p)
        THEN Watches(p) /\ AcceptedBy(p, session[p])
        ELSE /\ session[p] = IF Watches(p) THEN p ELSE NoSession
             /\ connected[p] \/ Accepting(p) => Offers(p)

ChannelInv == TypeOK /\ PeersAreVisible /\ LockIsHeld /\ AcceptedOnce /\ SessionsBelong
=====================================================================================
