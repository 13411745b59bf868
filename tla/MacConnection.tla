--------------------------- MODULE MacConnection ---------------------------
(***************************************************************************)
(* The subscriptions of one macOS Connection (macos/connection_darwin.go). *)
(* Subscribe enables notifications on the radio, registers the             *)
(* subscription under c.mu, replacing the one the characteristic had, and  *)
(* leaves a watcher goroutine that cancels it when its context or the      *)
(* connection ends.  Close closes whatever is registered and disconnects.  *)
(* Every radio operation runs in a goroutine of its own: it takes effect   *)
(* some time after it was asked for, also when the asker has given up.     *)
(***************************************************************************)
EXTENDS Naturals, FiniteSets

CONSTANTS
    Char,     \* characteristics
    Sub,      \* subscriptions: the calls of Subscribe, each made at most once
    NoSub,    \* a characteristic without subscription, or without callback
    NoChar,   \* a call of Subscribe not made yet
    Free,     \* c.mu is not held
    Failures  \* may the radio refuse an operation?

ASSUME ConstantsAssumption ==
    /\ NoSub \notin Sub
    /\ NoChar \notin Char
    /\ Free \notin Sub
    /\ Failures \in BOOLEAN

VARIABLES
    pc,          \* each Subscribe call: see SubscribePC
    char,        \* the characteristic it asks for
    callerDone,  \* is the context its caller gave done?
    state,       \* its subscription: "open", "closing" (disabling) or "closed" (out is closed)
    watcher,     \* its watcher: "none", "waiting", "woken", "closing" or "exited"
    victim,      \* the subscription its watcher found registered and closes
    registered,  \* c.subscriptions
    mu,          \* the Subscribe call that holds c.mu across existing.close(), or Free
    callback,    \* the subscription the radio notifies for each characteristic
    radio,       \* operations asked of the radio and not yet performed
    closed,      \* c.closed, and c.done is closed
    closing,     \* the Close call: "none", "subscriptions", "disconnecting" or "returned"
    remaining,   \* subscriptions Close has taken from the map and not yet closed
    closeFailed, \* has Close met an error?
    disconnected \* has the peripheral been disconnected?

call  == <<pc, char, callerDone>>
watch == <<watcher, victim>>
conn  == <<closed, closing, remaining, closeFailed, disconnected>>
vars  == <<call, state, watch, registered, mu, callback, radio, conn>>

(***************************************************************************)
(* A Subscribe call waits for the radio to enable notifications, then for  *)
(* c.mu; it may have to close its predecessor, or itself when the          *)
(* connection was closed in between; it ends returned or failed.           *)
(***************************************************************************)
SubscribePC == {"none", "enabling", "enabled", "replacing", "refused", "returned", "failed"}

Enable(i)  == [char |-> char[i], notify |-> TRUE, sub |-> i]
Disable(i) == [char |-> char[i], notify |-> FALSE, sub |-> i]
Operation  == [char : Char, notify : BOOLEAN, sub : Sub]

Init ==
    /\ pc = [i \in Sub |-> "none"]
    /\ char = [i \in Sub |-> NoChar]
    /\ callerDone = [i \in Sub |-> FALSE]
    /\ state = [i \in Sub |-> "open"]
    /\ watcher = [i \in Sub |-> "none"]
    /\ victim = [i \in Sub |-> NoSub]
    /\ registered = [c \in Char |-> NoSub]
    /\ mu = Free
    /\ callback = [c \in Char |-> NoSub]
    /\ radio = {}
    /\ closed = FALSE
    /\ closing = "none"
    /\ remaining = {}
    /\ closeFailed = FALSE
    /\ disconnected = FALSE

(***************************************************************************)
(* The context of a subscription is done when its caller's is, and when    *)
(* closeWithContext has cancelled it.                                      *)
(***************************************************************************)
SubContextDone(i) == callerDone[i] \/ state[i] # "open"

----------------------------------------------------------------------------
(***************************************************************************)
(* The radio performs an operation.                                        *)
(***************************************************************************)
RadioPerforms ==
    /\ \E op \in radio :
          /\ radio' = radio \ {op}
          /\ callback' = [callback EXCEPT ![op.char] = IF op.notify THEN op.sub ELSE NoSub]
    /\ UNCHANGED <<call, state, watch, registered, mu, conn>>

\* A Subscribe call that still waits for the operation fails.
RadioRefuses ==
    /\ Failures
    /\ \E op \in radio :
          /\ radio' = radio \ {op}
          /\ pc' = IF op.notify /\ pc[op.sub] = "enabling" THEN [pc EXCEPT ![op.sub] = "failed"] ELSE pc
    /\ UNCHANGED <<char, callerDone, state, watch, registered, mu, callback, conn>>

(***************************************************************************)
(* closeWithContext: the first to come marks the subscription closed,      *)
(* cancels its context and asks the radio to disable notifications; out is *)
(* closed when the radio has answered.  Those who come later wait for s.mu *)
(* and find it closed.                                                     *)
(***************************************************************************)
BeginClose(i) ==
    IF state[i] = "open"
    THEN /\ state' = [state EXCEPT ![i] = "closing"]
         /\ radio' = radio \cup {Disable(i)}
    ELSE UNCHANGED <<state, radio>>

EndClose(i) ==
    /\ state[i] = "closing"
    /\ Disable(i) \notin radio
    /\ state' = [state EXCEPT ![i] = "closed"]
    /\ UNCHANGED <<call, watch, registered, mu, callback, radio, conn>>

----------------------------------------------------------------------------
(***************************************************************************)
(* Subscribe.                                                              *)
(***************************************************************************)
CallSubscribe(i, c) ==
    /\ pc[i] = "none"
    /\ mu = Free /\ ~closed              \* resolve
    /\ char' = [char EXCEPT ![i] = c]
    /\ pc' = [pc EXCEPT ![i] = "enabling"]
    /\ radio' = radio \cup {[char |-> c, notify |-> TRUE, sub |-> i]}
    /\ UNCHANGED <<callerDone, state, watch, registered, mu, callback, conn>>

\* Mutant of EnableReturns: Subscribe does not wait for the radio.
EnableReturnsAtOnce(i) ==
    /\ pc[i] = "enabling"
    /\ pc' = [pc EXCEPT ![i] = "enabled"]
    /\ UNCHANGED <<char, callerDone, state, watch, registered, mu, callback, radio, conn>>

\* The operation has taken effect; it may report an error all the same.
EnableReturns(i) ==
    /\ pc[i] = "enabling"
    /\ Enable(i) \notin radio
    /\ \E next \in {"enabled"} \cup (IF Failures THEN {"failed"} ELSE {}) : pc' = [pc EXCEPT ![i] = next]
    /\ UNCHANGED <<char, callerDone, state, watch, registered, mu, callback, radio, conn>>

\* The context ends first; the operation still takes effect.
EnableAbandoned(i) ==
    /\ pc[i] = "enabling"
    /\ callerDone[i]
    /\ pc' = [pc EXCEPT ![i] = "failed"]
    /\ UNCHANGED <<char, callerDone, state, watch, registered, mu, callback, radio, conn>>

RefuseOnClosed(i) ==
    /\ pc[i] = "enabled"
    /\ mu = Free
    /\ closed
    /\ pc' = [pc EXCEPT ![i] = "refused"]
    /\ BeginClose(i)
    /\ UNCHANGED <<char, callerDone, watch, registered, mu, callback, conn>>

RefusalReturns(i) ==
    /\ pc[i] = "refused"
    /\ state[i] = "closed"
    /\ pc' = [pc EXCEPT ![i] = "failed"]
    /\ UNCHANGED <<char, callerDone, state, watch, registered, mu, callback, radio, conn>>

Registered(i) ==
    /\ registered' = [registered EXCEPT ![char[i]] = i]
    /\ pc' = [pc EXCEPT ![i] = "returned"]
    /\ watcher' = [watcher EXCEPT ![i] = "waiting"]

\* Mutant of Register: c.closed is not looked at again under c.mu.
RegisterUnchecked(i) ==
    /\ pc[i] = "enabled"
    /\ mu = Free
    /\ registered[char[i]] = NoSub
    /\ Registered(i)
    /\ UNCHANGED <<char, callerDone, state, victim, mu, callback, radio, conn>>

Register(i) ==
    /\ pc[i] = "enabled"
    /\ mu = Free
    /\ ~closed
    /\ registered[char[i]] = NoSub
    /\ Registered(i)
    /\ UNCHANGED <<char, callerDone, state, victim, mu, callback, radio, conn>>

\* Mutant of Replace: the new subscription overwrites the map entry and nobody closes the old one.
ReplaceWithoutClosing(i) ==
    /\ pc[i] = "enabled"
    /\ mu = Free
    /\ ~closed
    /\ registered[char[i]] # NoSub
    /\ Registered(i)
    /\ UNCHANGED <<char, callerDone, state, victim, mu, callback, radio, conn>>

\* existing.close() runs with c.mu held and does not look at any context.
Replace(i) ==
    /\ pc[i] = "enabled"
    /\ mu = Free
    /\ ~closed
    /\ registered[char[i]] # NoSub
    /\ mu' = i
    /\ pc' = [pc EXCEPT ![i] = "replacing"]
    /\ BeginClose(registered[char[i]])
    /\ UNCHANGED <<char, callerDone, watch, registered, callback, conn>>

ReplaceReturns(i) ==
    /\ pc[i] = "replacing"
    /\ state[registered[char[i]]] = "closed"
    /\ Registered(i)
    /\ mu' = Free
    /\ UNCHANGED <<char, callerDone, state, victim, callback, radio, conn>>

CallerCancels(i) ==
    /\ pc[i] # "none"
    /\ ~callerDone[i]
    /\ callerDone' = [callerDone EXCEPT ![i] = TRUE]
    /\ UNCHANGED <<pc, char, state, watch, registered, mu, callback, radio, conn>>

----------------------------------------------------------------------------
(***************************************************************************)
(* The watcher.  cancelSubscription looks the subscription up by its       *)
(* characteristic: it takes whichever is registered at that moment.        *)
(***************************************************************************)
\* Mutant of WatcherWakes: it does not wait for its context or the connection to end.
WatcherWakesUnasked(i) ==
    /\ watcher[i] = "waiting"
    /\ watcher' = [watcher EXCEPT ![i] = "woken"]
    /\ UNCHANGED <<call, state, victim, registered, mu, callback, radio, conn>>

WatcherWakes(i) ==
    /\ watcher[i] = "waiting"
    /\ SubContextDone(i) \/ closed
    /\ watcher' = [watcher EXCEPT ![i] = "woken"]
    /\ UNCHANGED <<call, state, victim, registered, mu, callback, radio, conn>>

\* Mutant of WatcherTakes: the entry is not deleted from the map.
WatcherTakesKeeping(i) ==
    /\ watcher[i] = "woken"
    /\ mu = Free
    /\ victim' = [victim EXCEPT ![i] = registered[char[i]]]
    /\ watcher' = [watcher EXCEPT ![i] = IF registered[char[i]] = NoSub THEN "exited" ELSE "closing"]
    /\ IF registered[char[i]] = NoSub THEN UNCHANGED <<state, radio>> ELSE BeginClose(registered[char[i]])
    /\ UNCHANGED <<call, registered, mu, callback, conn>>

WatcherTakes(i) ==
    /\ watcher[i] = "woken"
    /\ mu = Free
    /\ victim' = [victim EXCEPT ![i] = registered[char[i]]]
    /\ registered' = [registered EXCEPT ![char[i]] = NoSub]
    /\ watcher' = [watcher EXCEPT ![i] = IF registered[char[i]] = NoSub THEN "exited" ELSE "closing"]
    /\ IF registered[char[i]] = NoSub THEN UNCHANGED <<state, radio>> ELSE BeginClose(registered[char[i]])
    /\ UNCHANGED <<call, mu, callback, conn>>

WatcherExits(i) ==
    /\ watcher[i] = "closing"
    /\ state[victim[i]] = "closed"
    /\ watcher' = [watcher EXCEPT ![i] = "exited"]
    /\ UNCHANGED <<call, state, victim, registered, mu, callback, radio, conn>>

----------------------------------------------------------------------------
(***************************************************************************)
(* Close, inside closeOnce.  Each subscription is closed with the context  *)
(* of Close, which may end before the radio answers; the peripheral is     *)
(* disconnected only if no subscription reported an error.                 *)
(***************************************************************************)
\* Mutant of CallClose: characteristics without a subscription are collected too.
CallCloseWithNil ==
    /\ closing = "none"
    /\ mu = Free
    /\ closed' = TRUE
    /\ remaining' = {registered[c] : c \in Char}
    /\ registered' = [c \in Char |-> NoSub]
    /\ closing' = "subscriptions"
    /\ UNCHANGED <<call, state, watch, mu, callback, radio, closeFailed, disconnected>>

\* Mutant of CallClose: the map is emptied before the subscriptions are collected.
CallCloseForgetting ==
    /\ closing = "none"
    /\ mu = Free
    /\ closed' = TRUE
    /\ remaining' = {}
    /\ registered' = [c \in Char |-> NoSub]
    /\ closing' = "subscriptions"
    /\ UNCHANGED <<call, state, watch, mu, callback, radio, closeFailed, disconnected>>

CallClose ==
    /\ closing = "none"
    /\ mu = Free
    /\ closed' = TRUE
    /\ remaining' = {registered[c] : c \in Char} \ {NoSub}
    /\ registered' = [c \in Char |-> NoSub]
    /\ closing' = "subscriptions"
    /\ UNCHANGED <<call, state, watch, mu, callback, radio, closeFailed, disconnected>>

CloseBeginsOne(i) ==
    /\ closing = "subscriptions"
    /\ i \in remaining
    /\ state[i] = "open"
    /\ \A j \in remaining : state[j] # "closing"
    /\ BeginClose(i)
    /\ UNCHANGED <<call, watch, registered, mu, callback, conn>>

CloseEndsOne(i) ==
    /\ closing = "subscriptions"
    /\ i \in remaining
    /\ state[i] = "closed"
    /\ remaining' = remaining \ {i}
    /\ UNCHANGED <<call, state, watch, registered, mu, callback, radio, closed, closing, closeFailed, disconnected>>

\* The disable fails, or the context of Close ends first: out is closed all the same.
CloseFailsOne(i) ==
    /\ Failures
    /\ closing = "subscriptions"
    /\ i \in remaining
    /\ state[i] = "closing"
    /\ state' = [state EXCEPT ![i] = "closed"]
    /\ remaining' = remaining \ {i}
    /\ closeFailed' = TRUE
    /\ UNCHANGED <<call, watch, registered, mu, callback, radio, closed, closing, disconnected>>

CloseGoesOn ==
    /\ closing = "subscriptions"
    /\ remaining = {}
    /\ closing' = IF closeFailed THEN "returned" ELSE "disconnecting"
    /\ UNCHANGED <<call, state, watch, registered, mu, callback, radio, closed, remaining, closeFailed, disconnected>>

Disconnect ==
    /\ closing = "disconnecting"
    /\ closing' = "returned"
    /\ disconnected' = TRUE
    /\ UNCHANGED <<call, state, watch, registered, mu, callback, radio, closed, remaining, closeFailed>>

----------------------------------------------------------------------------
Subscribing(i) ==
    \/ \E c \in Char : CallSubscribe(i, c)
    \/ EnableReturns(i) \/ EnableAbandoned(i)
    \/ RefuseOnClosed(i) \/ RefusalReturns(i)
    \/ Register(i) \/ Replace(i) \/ ReplaceReturns(i)

Watching(i) == WatcherWakes(i) \/ WatcherTakes(i) \/ WatcherExits(i)

Closing ==
    \/ CallClose
    \/ \E i \in Sub : CloseBeginsOne(i) \/ CloseEndsOne(i) \/ CloseFailsOne(i)
    \/ CloseGoesOn
    \/ Disconnect

Next ==
    \/ RadioPerforms \/ RadioRefuses
    \/ \E i \in Sub : Subscribing(i) \/ CallerCancels(i) \/ Watching(i) \/ EndClose(i)
    \/ Closing

Spec == Init /\ [][Next]_vars

(***************************************************************************)
(* Goroutines run, a select sees that a context has ended, a mutex does    *)
(* not starve, and the radio performs what it was asked.  Callers need not *)
(* subscribe, cancel or close.                                             *)
(***************************************************************************)
ConnectionFairness ==
    /\ WF_vars(RadioPerforms)
    /\ \A i \in Sub :
          /\ WF_vars(EnableReturns(i)) /\ WF_vars(EnableAbandoned(i))
          /\ WF_vars(ReplaceReturns(i)) /\ WF_vars(RefusalReturns(i))
          /\ WF_vars(EndClose(i))
          /\ WF_vars(WatcherWakes(i)) /\ WF_vars(WatcherExits(i))
          /\ SF_vars(Register(i) \/ Replace(i) \/ RefuseOnClosed(i))
          /\ SF_vars(WatcherTakes(i))
          /\ WF_vars(CloseBeginsOne(i)) /\ WF_vars(CloseEndsOne(i))
    /\ WF_vars(CloseGoesOn) /\ WF_vars(Disconnect)

FairSpec == Spec /\ ConnectionFairness

----------------------------------------------------------------------------
TypeOK ==
    /\ pc \in [Sub -> SubscribePC]
    /\ char \in [Sub -> Char \cup {NoChar}]
    /\ callerDone \in [Sub -> BOOLEAN]
    /\ state \in [Sub -> {"open", "closing", "closed"}]
    /\ watcher \in [Sub -> {"none", "waiting", "woken", "closing", "exited"}]
    /\ victim \in [Sub -> Sub \cup {NoSub}]
    /\ registered \in [Char -> Sub \cup {NoSub}]
    /\ mu \in Sub \cup {Free}
    /\ callback \in [Char -> Sub \cup {NoSub}]
    /\ radio \subseteq Operation
    /\ closed \in BOOLEAN
    /\ closing \in {"none", "subscriptions", "disconnecting", "returned"}
    /\ remaining \subseteq Sub
    /\ closeFailed \in BOOLEAN
    /\ disconnected \in BOOLEAN

(***************************************************************************)
(* A closed connection registers nothing: a Subscribe that was waiting for *)
(* the radio or for c.mu while Close ran cannot slip a subscription in     *)
(* behind it.                                                              *)
(***************************************************************************)
ClosedRegistersNothing == closed => \A c \in Char : registered[c] = NoSub

(***************************************************************************)
(* No subscription is orphaned: one that was handed out and is still open  *)
(* is registered, where its watcher and Close find it, or Close has taken  *)
(* it and is about to close it.                                            *)
(***************************************************************************)
NoOrphan ==
    \A i \in Sub : pc[i] = "returned" /\ state[i] = "open" => registered[char[i]] = i \/ i \in remaining

(***************************************************************************)
(* What is registered is open, or is being closed by the Subscribe call    *)
(* that replaces it and holds c.mu.                                        *)
(***************************************************************************)
RegisteredIsOpen ==
    \A c \in Char : registered[c] # NoSub /\ state[registered[c]] # "open" =>
        mu \in Sub /\ pc[mu] = "replacing" /\ char[mu] = c

\* The map of subscriptions holds those that are open and no others, and none behind Close.
MapIsExact == NoOrphan /\ RegisteredIsOpen /\ ClosedRegistersNothing

(***************************************************************************)
(* An open subscription is notified by the radio, unless another Subscribe *)
(* call for its characteristic has taken the callback, or has been closed  *)
(* and switched the notifications off.  (A replaced subscription switches  *)
(* them off after its successor has switched them on.)                     *)
(***************************************************************************)
Heard(i) ==
    \/ callback[char[i]] = i
    \/ \E j \in Sub \ {i} :
          /\ char[j] = char[i]
          /\ callback[char[i]] = j \/ (callback[char[i]] = NoSub /\ state[j] # "open")

OpenIsHeard == \A i \in Sub : pc[i] = "returned" /\ state[i] = "open" => Heard(i)

(***************************************************************************)
(* Closing the connection closes every channel it has handed out and ends  *)
(* every watcher.                                                          *)
(***************************************************************************)
CloseEndsSubscriptions ==
    \A i \in Sub : closed /\ pc[i] = "returned" ~> state[i] = "closed" /\ watcher[i] = "exited"

(***************************************************************************)
(* A channel is closed when its subscription is cancelled, when it is      *)
(* replaced, or when the connection is closed.  Violated by replacement:   *)
(* the watcher of the old subscription closes the new one.                 *)
(***************************************************************************)
HasReason(i) == callerDone[i] \/ closed \/ \E j \in Sub : pc'[j] = "replacing" /\ registered[char[j]] = i

ClosedOnlyForReason == [][\A i \in Sub : state[i] = "open" /\ state'[i] = "closing" => HasReason(i)]_vars

(***************************************************************************)
(* That watcher is the only one to err: a subscription closed for no       *)
(* reason of its own shares its characteristic with one that was closed    *)
(* before it and whose watcher had not looked yet.                         *)
(***************************************************************************)
ClosedForReasonOrByPredecessor ==
    [][\A i \in Sub : state[i] = "open" /\ state'[i] = "closing" =>
          \/ HasReason(i)
          \/ \E j \in Sub \ {i} : char[j] = char[i] /\ state[j] # "open" /\ watcher[j] = "woken"]_vars

=============================================================================
