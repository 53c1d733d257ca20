-------------------------------- MODULE EventSource --------------------------------
(***************************************************************************)
(* event_source.hpp: listeners are kept under increasing numbers; whoever  *)
(* registers one gets a cookie that revokes it when it is destroyed.       *)
(* raise() copies the listeners under the lock and calls them without it.  *)
(* Every critical section of lock_ is one action.  A handler that registers*)
(* or unregisters does so while raise() holds no lock, so its calls are the*)
(* same actions, between two calls of the raise.  A registration, the copy *)
(* of the listeners and a handler may each throw.                          *)
(***************************************************************************)
EXTENDS Integers, Sequences, FiniteSets, FiniteSetsExt, Functions, SequencesExt

CONSTANTS
    Cookies,            \* places for event_source_cookie objects
    Raisers,            \* threads that call raise()
    Waiters,            \* threads that call wait()
    MaxRegistrations    \* bound: the calls of register_listener

ASSUME RegistrationAssumption == MaxRegistrations \in Nat

VARIABLES
    listeners,      \* the keys of listeners_
    empty,          \* those of them whose std::function is empty
    largest,        \* largest_event_cookie_
    number,         \* cookie_ of each cookie: 0 if it holds none or does not exist
    rpc,            \* where each raiser is
    pending,        \* its copy of listeners_: those it has not called yet
    called,         \* history: those it has called, in order
    throughout,     \* history: those registered ever since it entered raise()
    sometime,       \* history: those registered at some time since then
    dropped,        \* history: the numbers that an assignment overwrote
    waiting         \* the threads inside event_.wait

source == <<listeners, empty, largest>>
raise == <<rpc, pending, called>>
history == <<throughout, sometime, dropped>>
eventVars == <<source, number, raise, history, waiting>>

EventInit ==
    /\ listeners = {} /\ empty = {} /\ largest = 0
    /\ number = [c \in Cookies |-> 0]
    /\ rpc = [r \in Raisers |-> "idle"]
    /\ pending = [r \in Raisers |-> {}]
    /\ called = [r \in Raisers |-> <<>>]
    /\ throughout = [r \in Raisers |-> {}]
    /\ sometime = [r \in Raisers |-> {}]
    /\ dropped = {}
    /\ waiting = {}
-----------------------------------------------------------------------------------
(* Listeners and cookies *)

\* operator[] makes an entry for the next number, with an empty std::function.
Insert ==
    /\ largest < MaxRegistrations
    /\ largest' = largest + 1
    /\ listeners' = listeners \cup {largest'}
    /\ sometime' = [r \in Raisers |-> sometime[r] \cup {largest'}]
    /\ UNCHANGED <<raise, throughout, dropped, waiting>>

\* register_listener, into a cookie that is constructed from its result.
Register(c) ==
    /\ number[c] = 0
    /\ Insert
    /\ number' = [number EXCEPT ![c] = largest']
    /\ UNCHANGED empty

\* The copy of the handler into the entry throws: the entry stays, empty, and the
\* caller gets no cookie.
RegisterThrows ==
    /\ Insert
    /\ empty' = empty \cup {largest'}
    /\ UNCHANGED number

\* operator[] itself throws: the number is spent.
InsertThrows ==
    /\ largest < MaxRegistrations
    /\ largest' = largest + 1
    /\ UNCHANGED <<listeners, empty, number, raise, history, waiting>>

\* Mutant: the listener is revoked and the cookie keeps its number.
RevokeTwice(c) ==
    /\ number[c] # 0
    /\ listeners' = listeners \ {number[c]}
    /\ throughout' = [r \in Raisers |-> throughout[r] \ {number[c]}]
    /\ UNCHANGED <<empty, largest, number, raise, sometime, dropped, waiting>>

\* ~event_source_cookie and unregister_early.
Unregister(c) ==
    /\ number[c] # 0
    /\ listeners' = listeners \ {number[c]}
    /\ number' = [number EXCEPT ![c] = 0]
    /\ throughout' = [r \in Raisers |-> throughout[r] \ {number[c]}]
    /\ UNCHANGED <<empty, largest, raise, sometime, dropped, waiting>>

\* a = b: the number goes from a to b, and what b had is gone.
Assigned(held, a, b) == [[held EXCEPT ![b] = held[a]] EXCEPT ![a] = 0]

Assign(a, b) ==
    /\ number' = Assigned(number, a, b)
    /\ dropped' = dropped \cup ({number[b]} \ {0})
    /\ UNCHANGED <<source, raise, throughout, sometime, waiting>>

\* Mutant: the copy constructor says *this = other.
CopyConstructObvious(c, other) ==
    /\ number[c] = 0 /\ c # other
    /\ number' = Assigned(number, c, other)
    /\ UNCHANGED <<source, raise, history, waiting>>

\* The copy constructor says other = *this: with that assignment, c takes the
\* number of other.
CopyConstruct(c, other) ==
    /\ number[c] = 0 /\ c # other
    /\ number' = Assigned(number, other, c)
    /\ UNCHANGED <<source, raise, history, waiting>>
-----------------------------------------------------------------------------------
(* raise() and wait() *)

Enter(r) ==
    /\ rpc[r] \in {"idle", "threw"}
    /\ rpc' = [rpc EXCEPT ![r] = "entered"]
    /\ called' = [called EXCEPT ![r] = <<>>]
    /\ throughout' = [throughout EXCEPT ![r] = listeners]
    /\ sometime' = [sometime EXCEPT ![r] = listeners]
    /\ UNCHANGED <<source, number, pending, dropped, waiting>>

Snapshot(r) ==
    /\ rpc[r] = "entered"
    /\ rpc' = [rpc EXCEPT ![r] = "calling"]
    /\ pending' = [pending EXCEPT ![r] = listeners]
    /\ UNCHANGED <<source, number, called, history, waiting>>

\* The copy of the map throws, before anybody is called.
SnapshotThrows(r) ==
    /\ rpc[r] = "entered"
    /\ rpc' = [rpc EXCEPT ![r] = "threw"]
    /\ UNCHANGED <<source, number, pending, called, history, waiting>>

\* Mutant: the i-th call goes to the i-th of the listeners that are registered then.
CallByIndex(r) ==
    LET order == SetToSortSeq(listeners, <)
        i == Len(called[r]) + 1
    IN  /\ rpc[r] = "calling" /\ pending[r] # {}
        /\ IF i > Len(order)
           THEN pending' = [pending EXCEPT ![r] = {}] /\ UNCHANGED called
           ELSE /\ called' = [called EXCEPT ![r] = Append(@, order[i])]
                /\ pending' = [pending EXCEPT ![r] = IF i = Len(order) THEN {} ELSE @]
        /\ UNCHANGED <<source, number, rpc, history, waiting>>

Call(r) ==
    /\ rpc[r] = "calling" /\ pending[r] # {}
    /\ Min(pending[r]) \notin empty
    /\ called' = [called EXCEPT ![r] = Append(@, Min(pending[r]))]
    /\ pending' = [pending EXCEPT ![r] = @ \ {Min(@)}]
    /\ UNCHANGED <<source, number, rpc, history, waiting>>

\* A handler throws, as the call of an empty one does (std::bad_function_call): the
\* others are not called and nobody is notified.
CallThrows(r) ==
    /\ rpc[r] = "calling" /\ pending[r] # {}
    /\ rpc' = [rpc EXCEPT ![r] = "threw"]
    /\ UNCHANGED <<source, number, pending, called, history, waiting>>

\* Mutant: one waiter is notified.
NotifyOne(r) ==
    /\ rpc[r] = "calling" /\ pending[r] = {}
    /\ rpc' = [rpc EXCEPT ![r] = "idle"]
    /\ \E rest \in SUBSET waiting :
         Cardinality(rest) = Max({Cardinality(waiting) - 1, 0}) /\ waiting' = rest
    /\ UNCHANGED <<source, number, pending, called, history>>

NotifyAll(r) ==
    /\ rpc[r] = "calling" /\ pending[r] = {}
    /\ rpc' = [rpc EXCEPT ![r] = "idle"]
    /\ waiting' = {}
    /\ UNCHANGED <<source, number, pending, called, history>>

RaiseStep(r) ==
    Snapshot(r) \/ SnapshotThrows(r) \/ Call(r) \/ CallThrows(r) \/ NotifyAll(r)

BeginWait(w) ==
    /\ w \notin waiting
    /\ waiting' = waiting \cup {w}
    /\ UNCHANGED <<source, number, raise, history>>

\* A condition variable may wake up without being notified; wait() returns then, too.
SpuriousWake(w) ==
    /\ w \in waiting
    /\ waiting' = waiting \ {w}
    /\ UNCHANGED <<source, number, raise, history>>
-----------------------------------------------------------------------------------
EventNext ==
    \/ \E c \in Cookies : Register(c) \/ Unregister(c)
    \/ RegisterThrows \/ InsertThrows
    \/ \E c, other \in Cookies : CopyConstruct(c, other) \/ Assign(c, other)
    \/ \E r \in Raisers : Enter(r) \/ RaiseStep(r)
    \/ \E w \in Waiters : BeginWait(w) \/ SpuriousWake(w)

\* A raise() that was called goes on: lock_ is never kept, and handlers return or
\* throw.
EventFairness == \A r \in Raisers : WF_eventVars(RaiseStep(r))

EventSpec == EventInit /\ [][EventNext]_eventVars /\ EventFairness
-----------------------------------------------------------------------------------
(* Properties *)

\* unregister_listener asserts that the number is one it gave out and that its
\* listener is still there: a cookie that holds a number can revoke it, and no two
\* cookies hold the same.
HeldIsRegistered ==
    /\ \A c \in Cookies : number[c] # 0 => number[c] \in listeners
    /\ \A c, d \in Cookies : number[c] = number[d] /\ number[c] # 0 => c = d

\* The numbers that a cookie holds.
Held == {number[c] : c \in Cookies}

\* "Register a listener and receive a cookie to revoke later" (event_source.hpp:23): a
\* listener stays with the cookies, through every copy of them, until it is revoked.
\* The registered listeners that no cookie holds are those that an assignment a = b
\* took from b and the entries of registrations that threw; nothing removes them.
Orphans == dropped \cup empty
RevocableUnlessOrphaned ==
    /\ listeners = (Held \ {0}) \cup Orphans
    /\ Held \cap Orphans = {}

\* The listeners are called in the order of their registration.
InOrder(s) == \A i, j \in DOMAIN s : i < j => s[i] < s[j]

\* A raise() has called, when it comes to its end, every listener that was registered
\* all the time; when a handler throws, every one with a smaller number than some
\* listener.  Either way nobody was called twice, out of order, without a handler, or
\* after being revoked before the raise began.  (Who is revoked in between may still
\* be called once.)
RaiseReachesListeners ==
    [][ \A r \in Raisers : rpc[r] = "calling" /\ rpc'[r] # "calling" =>
          /\ Range(called[r]) \subseteq sometime[r] \ empty
          /\ InOrder(called[r])
          /\ \/ throughout[r] \subseteq Range(called[r])
             \/ /\ rpc'[r] = "threw"
                /\ \E n \in sometime[r] \ Range(called[r]) :
                     \A m \in throughout[r] : m < n => m \in Range(called[r]) ]_eventVars

\* A raise() that is under way lets out everybody who waits for the event, unless it
\* ends with an exception.
WaitersLetOut ==
    \A w \in Waiters, r \in Raisers :
        w \in waiting /\ rpc[r] \in {"entered", "calling"} ~> w \notin waiting \/ rpc[r] = "threw"
-----------------------------------------------------------------------------------
(* The inductive invariant of raise(), for the proofs. *)

RaiseTypeOK ==
    /\ rpc \in [Raisers -> {"idle", "entered", "calling", "threw"}]
    /\ pending \in [Raisers -> SUBSET Nat]
    /\ called \in [Raisers -> Seq(Nat)]
    /\ throughout \in [Raisers -> SUBSET Nat]
    /\ sometime \in [Raisers -> SUBSET (1 .. largest)]

\* Whom r has called and whom it has yet to call are the listeners of the moment when
\* it made its copy: all that were there throughout, and none that never was.  Whom it
\* has yet to call came later.
CallsInOrder(r) ==
    /\ rpc[r] \in {"entered", "calling"} =>
          throughout[r] \subseteq listeners /\ listeners \subseteq sometime[r]
    /\ rpc[r] = "entered" => called[r] = <<>>
    /\ rpc[r] = "calling" =>
          /\ throughout[r] \subseteq Range(called[r]) \cup pending[r]
          /\ Range(called[r]) \cup pending[r] \subseteq sometime[r]
          /\ Range(called[r]) \cap empty = {}
          /\ \A m \in Range(called[r]), n \in pending[r] : m < n
          /\ InOrder(called[r])

RaiseInv == RaiseTypeOK /\ \A r \in Raisers : CallsInOrder(r)
===================================================================================
