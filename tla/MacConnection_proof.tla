------------------------ MODULE MacConnection_proof ------------------------
(***************************************************************************)
(* The safety properties of MacConnection, for any number of Subscribe     *)
(* calls and characteristics.                                              *)
(***************************************************************************)
EXTENDS MacConnection, TLAPS

Types ==
    /\ pc \in [Sub -> SubscribePC]
    /\ char \in [Sub -> Char \cup {NoChar}]
    /\ state \in [Sub -> {"open", "closing", "closed"}]
    /\ watcher \in [Sub -> {"none", "waiting", "woken", "closing", "exited"}]
    /\ registered \in [Char -> Sub \cup {NoSub}]
    /\ mu \in Sub \cup {Free}
    /\ closed \in BOOLEAN
    /\ closing \in {"none", "subscriptions", "disconnecting", "returned"}
    /\ remaining \subseteq Sub

\* What is known of a subscription from the place of its Subscribe call.
PlaceFacts ==
    \A i \in Sub :
        /\ pc[i] # "none" => char[i] \in Char
        /\ pc[i] \in {"none", "enabling", "enabled", "replacing"} => state[i] = "open"
        /\ watcher[i] # "none" => pc[i] = "returned"

\* The map and Close hold subscriptions that were handed out, each under its own characteristic.
HeldFacts ==
    /\ \A c \in Char : registered[c] # NoSub => pc[registered[c]] = "returned" /\ char[registered[c]] = c
    /\ \A i \in remaining : pc[i] = "returned"

\* c.mu is held across a replacement, and Close cannot begin before it is released.
MutexFacts ==
    /\ \A i \in Sub : pc[i] = "replacing" <=> mu = i
    /\ mu # Free => registered[char[mu]] # NoSub /\ ~closed

CloseFacts ==
    /\ closing = "none" <=> ~closed
    /\ closing = "none" => remaining = {}

Inv ==
    /\ Types
    /\ PlaceFacts
    /\ HeldFacts
    /\ MutexFacts
    /\ CloseFacts
    /\ ClosedRegistersNothing
    /\ NoOrphan
    /\ RegisteredIsOpen

LEMMA InitInv == Init => Inv
<1> SUFFICES ASSUME Init PROVE Inv
  OBVIOUS
<1>1. Types
  BY ConstantsAssumption DEF Init, Types, SubscribePC
<1>2. \A i \in Sub : pc[i] = "none" /\ state[i] = "open" /\ watcher[i] = "none"
  BY DEF Init
<1>3. \A c \in Char : registered[c] = NoSub
  BY DEF Init
<1>4. mu = Free /\ closed = FALSE /\ closing = "none" /\ remaining = {}
  BY DEF Init
<1>5. PlaceFacts /\ HeldFacts
  BY <1>2, <1>3, <1>4 DEF PlaceFacts, HeldFacts
<1>6. MutexFacts /\ CloseFacts
  BY <1>2, <1>4, ConstantsAssumption DEF MutexFacts, CloseFacts
<1>7. ClosedRegistersNothing /\ NoOrphan /\ RegisteredIsOpen
  BY <1>2, <1>3 DEF ClosedRegistersNothing, NoOrphan, RegisteredIsOpen
<1> QED
  BY <1>1, <1>5, <1>6, <1>7 DEF Inv

\* While c.mu is free, everything registered is open.
LEMMA RegisteredOpenWhenFree ==
    ASSUME Inv, mu = Free, NEW c \in Char, registered[c] # NoSub
    PROVE  registered[c] \in Sub /\ state[registered[c]] = "open"
BY ConstantsAssumption DEF Inv, Types, RegisteredIsOpen

\* closeWithContext marks one subscription and no other.
LEMMA BeginCloseEffect ==
    ASSUME Inv, NEW i \in Sub, BeginClose(i)
    PROVE  /\ state' \in [Sub -> {"open", "closing", "closed"}]
           /\ state'[i] # "open"
           /\ \A j \in Sub : j # i => state'[j] = state[j]
BY DEF Inv, Types, BeginClose

(***************************************************************************)
(* Steps of a Subscribe call.                                              *)
(***************************************************************************)
LEMMA EnablingKeepsInv ==
    ASSUME Inv, NEW i \in Sub,
           \/ \E c \in Char : CallSubscribe(i, c)
           \/ EnableReturns(i) \/ EnableAbandoned(i) \/ RefusalReturns(i)
    PROVE  Inv'
<1> USE DEF Inv, Types, SubscribePC, PlaceFacts, HeldFacts, MutexFacts, CloseFacts,
            ClosedRegistersNothing, NoOrphan, RegisteredIsOpen, watch, conn
<1>1. ASSUME NEW c \in Char, CallSubscribe(i, c) PROVE Inv'
  BY <1>1, ConstantsAssumption DEF CallSubscribe
<1>2. CASE EnableReturns(i)
  <2>1. PICK next \in {"enabled", "failed"} : pc' = [pc EXCEPT ![i] = next]
    BY <1>2 DEF EnableReturns
  <2> QED
    BY <1>2, <2>1 DEF EnableReturns
<1>3. CASE EnableAbandoned(i)
  BY <1>3 DEF EnableAbandoned
<1>4. CASE RefusalReturns(i)
  BY <1>4 DEF RefusalReturns
<1> QED
  BY <1>1, <1>2, <1>3, <1>4

LEMMA RefuseKeepsInv ==
    ASSUME Inv, NEW i \in Sub, RefuseOnClosed(i)
    PROVE  Inv'
BY BeginCloseEffect, ConstantsAssumption
   DEF RefuseOnClosed, Inv, Types, SubscribePC, PlaceFacts, HeldFacts, MutexFacts, CloseFacts,
       ClosedRegistersNothing, NoOrphan, RegisteredIsOpen, watch, conn

LEMMA RegisterKeepsInv ==
    ASSUME Inv, NEW i \in Sub, Register(i)
    PROVE  Inv'
BY ConstantsAssumption
   DEF Register, Registered, Inv, Types, SubscribePC, PlaceFacts, HeldFacts, MutexFacts, CloseFacts,
       ClosedRegistersNothing, NoOrphan, RegisteredIsOpen, conn

LEMMA ReplaceKeepsInv ==
    ASSUME Inv, NEW i \in Sub, Replace(i)
    PROVE  Inv'
<1> DEFINE old == registered[char[i]]
<1>1. char[i] \in Char /\ old \in Sub /\ pc[old] = "returned" /\ char[old] = char[i]
  BY DEF Replace, Inv, Types, PlaceFacts, HeldFacts
<1>2. /\ state' \in [Sub -> {"open", "closing", "closed"}]
      /\ state'[old] # "open"
      /\ \A j \in Sub : j # old => state'[j] = state[j]
  BY <1>1, BeginCloseEffect DEF Replace
<1>3. \A c \in Char : registered[c] = old => c = char[i]
  BY <1>1, ConstantsAssumption DEF Inv, HeldFacts
<1>4. \A c \in Char : registered[c] # NoSub => registered[c] \in Sub /\ state[registered[c]] = "open"
  BY RegisteredOpenWhenFree DEF Replace
<1>5. /\ pc' = [pc EXCEPT ![i] = "replacing"] /\ mu' = i /\ pc[i] = "enabled" /\ mu = Free /\ ~closed
      /\ UNCHANGED <<char, watcher, registered, closed, closing, remaining>>
  BY DEF Replace, watch, conn
<1>6. i # old
  BY <1>1, <1>5
<1> HIDE DEF old
<1>7. Types'
  BY <1>2, <1>5 DEF Inv, Types, SubscribePC
<1>8. PlaceFacts'
  BY <1>1, <1>2, <1>5, <1>6 DEF Inv, Types, PlaceFacts
<1>9. HeldFacts'
  BY <1>4, <1>5 DEF Inv, Types, HeldFacts
<1>10. MutexFacts'
  BY <1>1, <1>5, ConstantsAssumption DEF Inv, Types, MutexFacts, old
<1>11. CloseFacts' /\ ClosedRegistersNothing'
  BY <1>5 DEF Inv, CloseFacts, ClosedRegistersNothing
<1>12. NoOrphan'
  BY <1>2, <1>5 DEF Inv, Types, NoOrphan
<1>13. RegisteredIsOpen'
  BY <1>1, <1>2, <1>3, <1>4, <1>5 DEF Inv, Types, RegisteredIsOpen
<1> QED
  BY <1>7, <1>8, <1>9, <1>10, <1>11, <1>12, <1>13 DEF Inv

LEMMA ReplaceReturnsKeepsInv ==
    ASSUME Inv, NEW i \in Sub, ReplaceReturns(i)
    PROVE  Inv'
<1>1. char[i] \in Char /\ mu = i /\ ~closed /\ state[i] = "open"
  BY ConstantsAssumption DEF ReplaceReturns, Inv, PlaceFacts, MutexFacts
<1>2. \A c \in Char : c # char[i] /\ registered[c] # NoSub => state[registered[c]] = "open"
  BY <1>1 DEF Inv, RegisteredIsOpen
<1>3. \A j \in Sub : j # i => pc[j] # "replacing"
  BY <1>1 DEF Inv, MutexFacts
<1> QED
  BY <1>1, <1>2, <1>3, ConstantsAssumption
     DEF ReplaceReturns, Registered, Inv, Types, SubscribePC, PlaceFacts, HeldFacts, MutexFacts,
         CloseFacts, ClosedRegistersNothing, NoOrphan, RegisteredIsOpen, conn

(***************************************************************************)
(* Steps of the watchers.                                                  *)
(***************************************************************************)
LEMMA WatcherTakesKeepsInv ==
    ASSUME Inv, NEW i \in Sub, WatcherTakes(i)
    PROVE  Inv'
<1> DEFINE old == registered[char[i]]
<1>1. char[i] \in Char /\ pc[i] = "returned"
  BY DEF WatcherTakes, Inv, Types, PlaceFacts
<1>2. PICK place \in {"exited", "closing"} : watcher' = [watcher EXCEPT ![i] = place]
  BY DEF WatcherTakes
<1>3. CASE old = NoSub
  BY <1>1, <1>2, <1>3, ConstantsAssumption
     DEF WatcherTakes, Inv, Types, PlaceFacts, HeldFacts, MutexFacts, CloseFacts,
         ClosedRegistersNothing, NoOrphan, RegisteredIsOpen, call, conn
<1>4. CASE old # NoSub
  <2>1. old \in Sub /\ pc[old] = "returned" /\ char[old] = char[i]
    BY <1>1, <1>4 DEF Inv, Types, HeldFacts
  <2>2. /\ state' \in [Sub -> {"open", "closing", "closed"}]
        /\ state'[old] # "open"
        /\ \A j \in Sub : j # old => state'[j] = state[j]
    BY <1>4, <2>1, BeginCloseEffect DEF WatcherTakes
  <2>3. \A c \in Char : registered[c] = old => c = char[i]
    BY <2>1, ConstantsAssumption DEF Inv, HeldFacts
  <2>4. \A c \in Char : registered[c] # NoSub => registered[c] \in Sub /\ state[registered[c]] = "open"
    BY RegisteredOpenWhenFree DEF WatcherTakes
  <2>5. /\ registered' = [registered EXCEPT ![char[i]] = NoSub] /\ mu = Free
        /\ UNCHANGED <<pc, char, mu, closed, closing, remaining>>
    BY DEF WatcherTakes, call, conn
  <2>6. \A x \in Sub : pc[x] # "replacing"
    BY <2>5, ConstantsAssumption DEF Inv, MutexFacts
  <2> HIDE DEF old
  <2>7. Types'
    BY <1>2, <2>2, <2>5 DEF Inv, Types
  <2>8. PlaceFacts'
    BY <1>1, <1>2, <2>1, <2>2, <2>5 DEF Inv, Types, PlaceFacts
  <2>9. HeldFacts'
    BY <1>1, <2>5 DEF Inv, Types, HeldFacts
  <2>10. MutexFacts' /\ CloseFacts'
    BY <2>5, <2>6 DEF Inv, MutexFacts, CloseFacts
  <2>11. ClosedRegistersNothing'
    BY <1>1, <2>5 DEF Inv, Types, ClosedRegistersNothing
  <2>12. NoOrphan'
    <3>1. \A j \in Sub : state'[j] = "open" => j # old /\ state[j] = "open"
      BY <2>2
    <3>2. registered[char[i]] = old
      BY DEF old
    <3> QED
      BY <1>1, <2>5, <3>1, <3>2 DEF Inv, Types, PlaceFacts, NoOrphan
  <2>13. RegisteredIsOpen'
    BY <1>1, <2>2, <2>3, <2>4, <2>5 DEF Inv, Types, RegisteredIsOpen
  <2> QED
    BY <2>7, <2>8, <2>9, <2>10, <2>11, <2>12, <2>13 DEF Inv
<1> QED
  BY <1>3, <1>4

LEMMA WatchingKeepsInv ==
    ASSUME Inv, NEW i \in Sub, WatcherWakes(i) \/ WatcherExits(i)
    PROVE  Inv'
BY DEF WatcherWakes, WatcherExits, Inv, Types, PlaceFacts, HeldFacts, MutexFacts, CloseFacts,
       ClosedRegistersNothing, NoOrphan, RegisteredIsOpen, call, conn

(***************************************************************************)
(* Steps of the radio.  A refusal fails the Subscribe call that waits.     *)
(***************************************************************************)
LEMMA RefusedCall ==
    ASSUME pc \in [Sub -> SubscribePC], RadioRefuses
    PROVE  pc' = pc \/ \E i \in Sub : pc[i] = "enabling" /\ pc' = [pc EXCEPT ![i] = "failed"]
<1>1. PICK op \in radio :
          pc' = IF op.notify /\ pc[op.sub] = "enabling" THEN [pc EXCEPT ![op.sub] = "failed"] ELSE pc
  BY DEF RadioRefuses
<1>2. op.sub \notin Sub => [pc EXCEPT ![op.sub] = "failed"] = pc
  OBVIOUS
<1> QED
  BY <1>1, <1>2

LEMMA RadioKeepsInv ==
    ASSUME Inv, RadioPerforms \/ RadioRefuses
    PROVE  Inv'
<1> USE DEF Inv, Types, SubscribePC, PlaceFacts, HeldFacts, MutexFacts, CloseFacts,
            ClosedRegistersNothing, NoOrphan, RegisteredIsOpen, watch, conn
<1>1. CASE RadioPerforms
  BY <1>1 DEF RadioPerforms, call
<1>2. CASE RadioRefuses /\ pc' = pc
  BY <1>2 DEF RadioRefuses
<1>3. ASSUME NEW i \in Sub, RadioRefuses, pc[i] = "enabling", pc' = [pc EXCEPT ![i] = "failed"]
      PROVE  Inv'
  BY <1>3 DEF RadioRefuses
<1> QED
  BY <1>1, <1>2, <1>3, RefusedCall

\* A subscription whose closing ends is neither open nor made open.
LEMMA EndCloseKeepsInv ==
    ASSUME Inv, NEW i \in Sub, EndClose(i)
    PROVE  Inv'
BY DEF EndClose, Inv, Types, PlaceFacts, HeldFacts, MutexFacts, CloseFacts,
       ClosedRegistersNothing, NoOrphan, RegisteredIsOpen, call, watch, conn

(***************************************************************************)
(* Steps of Close.                                                         *)
(***************************************************************************)
LEMMA CallCloseKeepsInv ==
    ASSUME Inv, CallClose
    PROVE  Inv'
<1>1. mu = Free /\ \A i \in Sub : pc[i] # "replacing"
  BY ConstantsAssumption DEF CallClose, Inv, MutexFacts
<1>2. \A i \in remaining' : i \in Sub /\ pc[i] = "returned"
  BY DEF CallClose, Inv, Types, HeldFacts
<1>3. \A i \in Sub : pc[i] = "returned" /\ state[i] = "open" => i \in remaining'
  <2> SUFFICES ASSUME NEW i \in Sub, pc[i] = "returned", state[i] = "open"
               PROVE  i \in remaining'
    OBVIOUS
  <2>1. char[i] \in Char /\ registered[char[i]] = i
    BY DEF CallClose, Inv, PlaceFacts, CloseFacts, NoOrphan
  <2> QED
    BY <2>1, ConstantsAssumption DEF CallClose
<1> QED
  BY <1>1, <1>2, <1>3, ConstantsAssumption
     DEF CallClose, Inv, Types, PlaceFacts, HeldFacts, MutexFacts, CloseFacts,
         ClosedRegistersNothing, NoOrphan, RegisteredIsOpen, call, watch

LEMMA CloseBeginsKeepsInv ==
    ASSUME Inv, NEW i \in Sub, CloseBeginsOne(i)
    PROVE  Inv'
BY BeginCloseEffect, ConstantsAssumption
   DEF CloseBeginsOne, Inv, Types, PlaceFacts, HeldFacts, MutexFacts, CloseFacts,
       ClosedRegistersNothing, NoOrphan, RegisteredIsOpen, call, watch, conn

LEMMA CloseEndsKeepsInv ==
    ASSUME Inv, NEW i \in Sub, CloseEndsOne(i) \/ CloseFailsOne(i)
    PROVE  Inv'
BY DEF CloseEndsOne, CloseFailsOne, Inv, Types, PlaceFacts, HeldFacts, MutexFacts, CloseFacts,
       ClosedRegistersNothing, NoOrphan, RegisteredIsOpen, call, watch

LEMMA CloseGoesOnKeepsInv ==
    ASSUME Inv, CloseGoesOn \/ Disconnect
    PROVE  Inv'
BY DEF CloseGoesOn, Disconnect, Inv, Types, PlaceFacts, HeldFacts, MutexFacts, CloseFacts,
       ClosedRegistersNothing, NoOrphan, RegisteredIsOpen, call, watch

LEMMA StepKeepsInv == Inv /\ [Next]_vars => Inv'
<1> SUFFICES ASSUME Inv, [Next]_vars PROVE Inv'
  OBVIOUS
<1>0. CASE RadioPerforms \/ RadioRefuses
  BY <1>0, RadioKeepsInv
<1>1. CASE UNCHANGED vars
  BY <1>1 DEF vars, call, watch, conn, Inv, Types, PlaceFacts, HeldFacts,
     MutexFacts, CloseFacts, ClosedRegistersNothing, NoOrphan, RegisteredIsOpen
<1>2. ASSUME NEW i \in Sub, Subscribing(i) PROVE Inv'
  BY <1>2, EnablingKeepsInv, RefuseKeepsInv, RegisterKeepsInv, ReplaceKeepsInv, ReplaceReturnsKeepsInv
     DEF Subscribing
<1>3. ASSUME NEW i \in Sub, CallerCancels(i) PROVE Inv'
  BY <1>3 DEF CallerCancels, watch, conn, Inv, Types, PlaceFacts, HeldFacts, MutexFacts, CloseFacts,
     ClosedRegistersNothing, NoOrphan, RegisteredIsOpen
<1>4. ASSUME NEW i \in Sub, Watching(i) PROVE Inv'
  BY <1>4, WatcherTakesKeepsInv, WatchingKeepsInv DEF Watching
<1>5. ASSUME NEW i \in Sub, EndClose(i) PROVE Inv'
  BY <1>5, EndCloseKeepsInv
<1>6. CASE Closing
  BY <1>6, CallCloseKeepsInv, CloseBeginsKeepsInv, CloseEndsKeepsInv, CloseGoesOnKeepsInv DEF Closing
<1> QED
  BY <1>0, <1>1, <1>2, <1>3, <1>4, <1>5, <1>6 DEF Next

(***************************************************************************)
(* No Subscribe slips a subscription into a connection that Close has      *)
(* emptied.                                                                *)
(***************************************************************************)
THEOREM NothingAfterClose == Spec => []ClosedRegistersNothing
<1>1. Inv => ClosedRegistersNothing
  BY DEF Inv
<1> QED
  BY <1>1, InitInv, StepKeepsInv, PTL DEF Spec

(***************************************************************************)
(* A subscription that was handed out and is open can be found: by its     *)
(* watcher and by Close in the map, or by Close in its own list.           *)
(***************************************************************************)
THEOREM OpenIsFound == Spec => []NoOrphan
<1>1. Inv => NoOrphan
  BY DEF Inv
<1> QED
  BY <1>1, InitInv, StepKeepsInv, PTL DEF Spec

(***************************************************************************)
(* What is registered is open but for the replacement in progress.         *)
(***************************************************************************)
THEOREM MapIsOpen == Spec => []RegisteredIsOpen
<1>1. Inv => RegisteredIsOpen
  BY DEF Inv
<1> QED
  BY <1>1, InitInv, StepKeepsInv, PTL DEF Spec

(***************************************************************************)
(* Together: c.subscriptions is what is open, with the exception of what   *)
(* Subscribe or Close is about to close.                                   *)
(***************************************************************************)
THEOREM MapIsWhatIsOpen == Spec => []MapIsExact
<1>1. NoOrphan /\ RegisteredIsOpen /\ ClosedRegistersNothing => MapIsExact
  BY DEF MapIsExact
<1> QED
  BY <1>1, OpenIsFound, MapIsOpen, NothingAfterClose, PTL

----------------------------------------------------------------------------
(***************************************************************************)
(* The rest of the types, and what has woken a watcher: these follow each  *)
(* step once Inv is known.                                                 *)
(***************************************************************************)
RadioTypes ==
    /\ callerDone \in [Sub -> BOOLEAN]
    /\ victim \in [Sub -> Sub \cup {NoSub}]
    /\ callback \in [Char -> Sub \cup {NoSub}]
    /\ radio \subseteq Operation
    /\ closeFailed \in BOOLEAN /\ disconnected \in BOOLEAN

WokenFacts == \A i \in Sub : watcher[i] = "woken" => SubContextDone(i) \/ closed

\* BeginClose asks the radio for an operation on a characteristic.
LEMMA BeginCloseAsks ==
    ASSUME Inv, NEW i \in Sub, BeginClose(i), pc[i] # "none", radio \subseteq Operation
    PROVE  radio' \subseteq Operation
<1>1. char[i] \in Char
  BY DEF Inv, PlaceFacts
<1>2. Disable(i) \in Operation
  BY <1>1 DEF Disable, Operation
<1> QED
  BY <1>2 DEF BeginClose

LEMMA InitRest == Init => RadioTypes /\ WokenFacts
<1> SUFFICES ASSUME Init PROVE RadioTypes /\ WokenFacts
  OBVIOUS
<1>1. RadioTypes
  BY DEF Init, RadioTypes
<1>2. WokenFacts
  BY DEF Init, WokenFacts
<1> QED
  BY <1>1, <1>2

LEMMA StepKeepsRadioTypes == Inv /\ RadioTypes /\ [Next]_vars => RadioTypes'
<1> SUFFICES ASSUME Inv, RadioTypes, [Next]_vars PROVE RadioTypes'
  OBVIOUS
<1> USE DEF RadioTypes, call, watch, conn
<1>1. CASE RadioPerforms \/ RadioRefuses \/ UNCHANGED vars
  BY <1>1 DEF RadioPerforms, RadioRefuses, vars, Operation
<1>2. ASSUME NEW i \in Sub, Subscribing(i) PROVE RadioTypes'
  <2>1. ASSUME NEW c \in Char, CallSubscribe(i, c) PROVE RadioTypes'
    <3>1. [char |-> c, notify |-> TRUE, sub |-> i] \in Operation
      BY DEF Operation
    <3> QED
      BY <2>1, <3>1 DEF CallSubscribe
  <2>2. CASE EnableReturns(i) \/ EnableAbandoned(i) \/ RefusalReturns(i)
    BY <2>2 DEF EnableReturns, EnableAbandoned, RefusalReturns
  <2>3. CASE RefuseOnClosed(i)
    BY <2>3, BeginCloseAsks DEF RefuseOnClosed
  <2>4. CASE Register(i) \/ ReplaceReturns(i)
    BY <2>4 DEF Register, ReplaceReturns, Registered
  <2>5. CASE Replace(i)
    <3>1. registered[char[i]] \in Sub /\ pc[registered[char[i]]] = "returned"
      BY <2>5 DEF Replace, Inv, Types, PlaceFacts, HeldFacts
    <3> QED
      BY <2>5, <3>1, BeginCloseAsks DEF Replace
  <2> QED
    BY <1>2, <2>1, <2>2, <2>3, <2>4, <2>5 DEF Subscribing
<1>3. ASSUME NEW i \in Sub, CallerCancels(i) \/ EndClose(i) PROVE RadioTypes'
  BY <1>3 DEF CallerCancels, EndClose
<1>4. ASSUME NEW i \in Sub, Watching(i) PROVE RadioTypes'
  <2>1. CASE WatcherWakes(i) \/ WatcherExits(i)
    BY <2>1 DEF WatcherWakes, WatcherExits
  <2>2. CASE WatcherTakes(i)
    <3>1. char[i] \in Char /\ registered[char[i]] \in Sub \cup {NoSub}
      BY <2>2 DEF WatcherTakes, Inv, Types, PlaceFacts
    <3>2. radio' \subseteq Operation
      BY <2>2, <3>1, BeginCloseAsks DEF WatcherTakes, Inv, HeldFacts
    <3> QED
      BY <2>2, <3>1, <3>2 DEF WatcherTakes
  <2> QED
    BY <1>4, <2>1, <2>2 DEF Watching
<1>5. CASE Closing
  <2>1. CASE CallClose \/ CloseGoesOn \/ Disconnect
    BY <2>1 DEF CallClose, CloseGoesOn, Disconnect
  <2>2. ASSUME NEW i \in Sub, CloseBeginsOne(i) PROVE RadioTypes'
    BY <2>2, BeginCloseAsks DEF CloseBeginsOne, Inv, HeldFacts
  <2>3. ASSUME NEW i \in Sub, CloseEndsOne(i) \/ CloseFailsOne(i) PROVE RadioTypes'
    BY <2>3 DEF CloseEndsOne, CloseFailsOne
  <2> QED
    BY <1>5, <2>1, <2>2, <2>3 DEF Closing
<1> QED
  BY <1>1, <1>2, <1>3, <1>4, <1>5 DEF Next

(***************************************************************************)
(* Every reachable state is well typed: whatever is asked of the radio is  *)
(* about a characteristic and on behalf of a Subscribe call.               *)
(***************************************************************************)
THEOREM TypeCorrectness == Spec => []TypeOK
<1>1. Inv /\ RadioTypes => TypeOK
  BY DEF Inv, Types, RadioTypes, TypeOK
<1> QED
  BY <1>1, InitInv, InitRest, StepKeepsInv, StepKeepsRadioTypes, PTL DEF Spec

----------------------------------------------------------------------------
(***************************************************************************)
(* Each step that takes a subscription from open to closing, and what it   *)
(* leaves alone.  All others leave state alone but for closing to closed.  *)
(***************************************************************************)
BeginsClose(k) ==
    \/ closed /\ UNCHANGED watcher
    \/ \E j \in Sub : registered[char[j]] = k /\ pc'[j] = "replacing" /\ UNCHANGED watcher
    \/ \E j \in Sub : registered[char[j]] = k /\ WatcherTakes(j)

LEMMA StateChanges ==
    ASSUME Inv, [Next]_vars
    PROVE  \/ \A i \in Sub : state[i] = "open" <=> state'[i] = "open"
           \/ \E k \in Sub : BeginsClose(k) /\ state'[k] # "open" /\ \A i \in Sub : i # k => state'[i] = state[i]
<1> DEFINE Same == \A i \in Sub : state[i] = "open" <=> state'[i] = "open"
<1> DEFINE One(k) == state'[k] # "open" /\ \A i \in Sub : i # k => state'[i] = state[i]
<1> SUFFICES Same \/ \E k \in Sub : BeginsClose(k) /\ One(k)
  OBVIOUS
<1> USE DEF watch, conn
<1>1. CASE RadioPerforms \/ RadioRefuses \/ UNCHANGED vars
  BY <1>1 DEF RadioPerforms, RadioRefuses, vars
<1>2. ASSUME NEW j \in Sub, Subscribing(j) PROVE Same \/ \E k \in Sub : BeginsClose(k) /\ One(k)
  <2>1. CASE RefuseOnClosed(j)
    <3>1. One(j)
      BY <2>1, BeginCloseEffect DEF RefuseOnClosed
    <3> QED
      BY <2>1, <3>1 DEF RefuseOnClosed, BeginsClose
  <2>2. CASE Replace(j)
    <3> DEFINE old == registered[char[j]]
    <3>1. old \in Sub
      BY <2>2 DEF Replace, Inv, Types, PlaceFacts
    <3>2. One(old)
      BY <2>2, <3>1, BeginCloseEffect DEF Replace
    <3>3. pc'[j] = "replacing" /\ UNCHANGED watcher
      BY <2>2 DEF Replace, Inv, Types
    <3>4. BeginsClose(old)
      BY <3>3 DEF BeginsClose
    <3> QED
      BY <3>1, <3>2, <3>4
  <2>3. CASE (\E c \in Char : CallSubscribe(j, c)) \/ EnableReturns(j) \/ EnableAbandoned(j) \/ RefusalReturns(j)
             \/ Register(j) \/ ReplaceReturns(j)
    BY <2>3 DEF CallSubscribe, EnableReturns, EnableAbandoned, RefusalReturns, Register, ReplaceReturns
  <2> QED
    BY <1>2, <2>1, <2>2, <2>3 DEF Subscribing
<1>3. ASSUME NEW j \in Sub, CallerCancels(j) \/ EndClose(j) PROVE Same
  BY <1>3 DEF CallerCancels, EndClose, Inv, Types
<1>4. ASSUME NEW j \in Sub, Watching(j) PROVE Same \/ \E k \in Sub : BeginsClose(k) /\ One(k)
  <2>1. CASE WatcherWakes(j) \/ WatcherExits(j)
    BY <2>1 DEF WatcherWakes, WatcherExits
  <2>2. CASE WatcherTakes(j)
    <3> DEFINE old == registered[char[j]]
    <3>1. CASE old = NoSub
      BY <2>2, <3>1 DEF WatcherTakes
    <3>2. CASE old # NoSub
      <4>1. old \in Sub
        BY <2>2, <3>2 DEF WatcherTakes, Inv, Types, PlaceFacts
      <4>2. One(old)
        BY <2>2, <3>2, <4>1, BeginCloseEffect DEF WatcherTakes
      <4>3. BeginsClose(old)
        BY <2>2 DEF BeginsClose
      <4> QED
        BY <4>1, <4>2, <4>3
    <3> QED
      BY <3>1, <3>2
  <2> QED
    BY <1>4, <2>1, <2>2 DEF Watching
<1>5. CASE Closing
  <2>1. CASE CallClose \/ CloseGoesOn \/ Disconnect
    BY <2>1 DEF CallClose, CloseGoesOn, Disconnect
  <2>2. ASSUME NEW i \in Sub, CloseBeginsOne(i) PROVE \E k \in Sub : BeginsClose(k) /\ One(k)
    <3>1. One(i) /\ closed /\ UNCHANGED watcher
      BY <2>2, BeginCloseEffect DEF CloseBeginsOne, Inv, CloseFacts
    <3> QED
      BY <3>1 DEF BeginsClose
  <2>3. ASSUME NEW i \in Sub, CloseEndsOne(i) \/ CloseFailsOne(i) PROVE Same
    BY <2>3 DEF CloseEndsOne, CloseFailsOne, Inv, Types
  <2> QED
    BY <1>5, <2>1, <2>2, <2>3 DEF Closing
<1> QED
  BY <1>1, <1>2, <1>3, <1>4, <1>5 DEF Next

\* Contexts and the connection end once.
LEMMA EndsStayEnded ==
    ASSUME Inv, RadioTypes, [Next]_vars
    PROVE  /\ \A i \in Sub : callerDone[i] => callerDone'[i]
           /\ closed => closed'
<1> USE DEF call, watch, conn
<1>1. CASE RadioPerforms \/ RadioRefuses \/ UNCHANGED vars
  BY <1>1 DEF RadioPerforms, RadioRefuses, vars
<1>2. ASSUME NEW j \in Sub, Subscribing(j) PROVE UNCHANGED <<callerDone, closed>>
  BY <1>2 DEF Subscribing, CallSubscribe, EnableReturns, EnableAbandoned, RefuseOnClosed, RefusalReturns,
     Register, Replace, ReplaceReturns
<1>3. ASSUME NEW j \in Sub, CallerCancels(j) \/ EndClose(j) \/ Watching(j)
      PROVE  UNCHANGED closed /\ \A i \in Sub : callerDone[i] => callerDone'[i]
  BY <1>3 DEF CallerCancels, EndClose, Watching, WatcherWakes, WatcherTakes, WatcherExits, RadioTypes
<1>4. CASE Closing
  BY <1>4 DEF Closing, CallClose, CloseBeginsOne, CloseEndsOne, CloseFailsOne, CloseGoesOn, Disconnect
<1> QED
  BY <1>1, <1>2, <1>3, <1>4 DEF Next

\* Only its own select wakes a watcher.
LEMMA WakesItself ==
    ASSUME Inv, [Next]_vars, NEW i \in Sub, watcher'[i] = "woken", watcher[i] # "woken"
    PROVE  WatcherWakes(i)
<1> USE DEF call, watch, conn, Inv, Types
<1>1. CASE RadioPerforms \/ RadioRefuses \/ UNCHANGED vars
  BY <1>1 DEF RadioPerforms, RadioRefuses, vars
<1>2. ASSUME NEW j \in Sub, Subscribing(j) PROVE FALSE
  BY <1>2 DEF Subscribing, CallSubscribe, EnableReturns, EnableAbandoned, RefuseOnClosed, RefusalReturns,
     Register, Replace, ReplaceReturns, Registered
<1>3. ASSUME NEW j \in Sub, CallerCancels(j) \/ EndClose(j) \/ Watching(j) PROVE WatcherWakes(i)
  BY <1>3 DEF CallerCancels, EndClose, Watching, WatcherWakes, WatcherTakes, WatcherExits
<1>4. CASE Closing
  BY <1>4 DEF Closing, CallClose, CloseBeginsOne, CloseEndsOne, CloseFailsOne, CloseGoesOn, Disconnect
<1> QED
  BY <1>1, <1>2, <1>3, <1>4 DEF Next

LEMMA StepKeepsWokenFacts == Inv /\ RadioTypes /\ WokenFacts /\ [Next]_vars => WokenFacts'
<1> SUFFICES ASSUME Inv, RadioTypes, WokenFacts, [Next]_vars, NEW i \in Sub, watcher'[i] = "woken"
             PROVE  callerDone'[i] \/ state'[i] # "open" \/ closed'
  BY DEF WokenFacts, SubContextDone
<1>1. callerDone[i] \/ state[i] # "open" \/ closed
  BY WakesItself DEF WokenFacts, WatcherWakes, SubContextDone
<1>2. state[i] # "open" => state'[i] # "open"
  BY StateChanges
<1> QED
  BY <1>1, <1>2, EndsStayEnded

(***************************************************************************)
(* An open subscription is closed because it was cancelled or replaced,    *)
(* because the connection is closed, or by the watcher of a subscription   *)
(* to the same characteristic that was closed before it.                   *)
(***************************************************************************)
THEOREM ClosedByPredecessorAtWorst == Spec => ClosedForReasonOrByPredecessor
<1>1. ASSUME Inv, RadioTypes, WokenFacts, [Next]_vars
      PROVE  \A i \in Sub : state[i] = "open" /\ state'[i] = "closing" =>
                 \/ HasReason(i)
                 \/ \E j \in Sub \ {i} : char[j] = char[i] /\ state[j] # "open" /\ watcher[j] = "woken"
  <2> SUFFICES ASSUME NEW i \in Sub, state[i] = "open", state'[i] = "closing"
               PROVE  \/ HasReason(i)
                      \/ \E j \in Sub \ {i} : char[j] = char[i] /\ state[j] # "open" /\ watcher[j] = "woken"
    OBVIOUS
  <2>1. BeginsClose(i)
    BY <1>1, StateChanges
  <2>2. CASE closed \/ \E j \in Sub : registered[char[j]] = i /\ pc'[j] = "replacing"
    BY <2>2 DEF HasReason
  <2>3. ASSUME NEW j \in Sub, registered[char[j]] = i, WatcherTakes(j), ~closed
        PROVE  \/ HasReason(i)
               \/ char[j] = char[i] /\ state[j] # "open" /\ watcher[j] = "woken"  /\ j # i
    <3>1. watcher[j] = "woken" /\ pc[j] = "returned" /\ char[j] \in Char /\ char[i] = char[j]
      BY <1>1, <2>3, ConstantsAssumption DEF WatcherTakes, Inv, PlaceFacts, HeldFacts
    <3>2. callerDone[j] \/ state[j] # "open"
      BY <1>1, <2>3, <3>1 DEF WokenFacts, SubContextDone
    <3>3. CASE j = i
      BY <3>2, <3>3 DEF HasReason
    <3>4. CASE j # i
      <4>1. state[j] # "open"
        BY <1>1, <2>3, <3>1, <3>4 DEF Inv, NoOrphan, CloseFacts
      <4> QED
        BY <3>1, <3>4, <4>1
    <3> QED
      BY <3>3, <3>4
  <2> QED
    BY <2>1, <2>2, <2>3 DEF BeginsClose
<1> QED
  BY <1>1, InitInv, InitRest, StepKeepsInv, StepKeepsRadioTypes, StepKeepsWokenFacts, PTL
     DEF Spec, ClosedForReasonOrByPredecessor

----------------------------------------------------------------------------
(***************************************************************************)
(* What the radio has been asked: to notify a subscription that is being   *)
(* made, or to stop because one has been closed.  A subscription is ready  *)
(* when the radio has notified it, and stays heard from then on, unless    *)
(* another one for its characteristic comes in between.                    *)
(***************************************************************************)
AskedFacts ==
    /\ \A op \in radio : pc[op.sub] # "none" /\ op.char = char[op.sub] /\ (~op.notify => state[op.sub] # "open")
    /\ \A i \in Sub : pc[i] = "none" => char[i] = NoChar

Ready(i) ==
    /\ state[i] = "open"
    /\ pc[i] \in {"enabled", "replacing", "returned"} \/ (pc[i] = "enabling" /\ Enable(i) \notin radio)

ReadyIsHeard == \A i \in Sub : Ready(i) => Heard(i)

\* Every step but the radio's may ask it for more, takes nothing back and makes nothing ready.
Asks ==
    /\ UNCHANGED callback /\ radio \subseteq radio'
    /\ \A i \in Sub : pc[i] # "none" => pc'[i] # "none" /\ char'[i] = char[i]
    /\ \A i \in Sub : pc'[i] = "none" => char'[i] = char[i]
    /\ \A op \in radio' \ radio :
          pc'[op.sub] # "none" /\ op.char = char'[op.sub] /\ (~op.notify => state'[op.sub] # "open")
    /\ \A i \in Sub : pc'[i] \in {"enabled", "replacing", "returned"} /\ pc'[i] # pc[i] =>
          pc[i] \in {"enabled", "replacing"} \/ (pc[i] = "enabling" /\ Enable(i) \notin radio)
    /\ \A i \in Sub : pc'[i] = "enabling" /\ pc[i] # "enabling" => Enable(i)' \in radio'

\* closeWithContext asks the radio to stop on behalf of a subscription that is not open any more.
LEMMA BeginCloseOrders ==
    ASSUME Inv, NEW k \in Sub, pc[k] # "none", BeginClose(k), UNCHANGED <<char, callback>>,
           \A j \in Sub : pc'[j] # pc[j] => pc[j] = "enabled" /\ pc'[j] \in {"refused", "replacing"},
           pc' \in [Sub -> SubscribePC]
    PROVE  Asks
<1>1. state'[k] # "open" /\ pc'[k] # "none"
  BY BeginCloseEffect
<1>2. radio' = radio \/ radio' = radio \cup {Disable(k)}
  BY DEF BeginClose
<1>3. Disable(k).sub = k /\ Disable(k).char = char[k] /\ ~Disable(k).notify
  BY DEF Disable
<1> QED
  BY <1>1, <1>2, <1>3 DEF Asks

LEMMA StepAsks ==
    ASSUME Inv, [Next]_vars
    PROVE  RadioPerforms \/ RadioRefuses \/ Asks
<1> USE DEF watch, conn
<1>1. CASE UNCHANGED vars
  BY <1>1 DEF vars, call, Asks, Enable
<1>2. ASSUME NEW i \in Sub, Subscribing(i) PROVE Asks
  <2>1. ASSUME NEW c \in Char, CallSubscribe(i, c) PROVE Asks
    <3> DEFINE op == [char |-> c, notify |-> TRUE, sub |-> i]
    <3>1. /\ pc[i] = "none" /\ pc' = [pc EXCEPT ![i] = "enabling"] /\ char' = [char EXCEPT ![i] = c]
          /\ radio' = radio \cup {op} /\ UNCHANGED callback
      BY <2>1 DEF CallSubscribe
    <3>2. pc'[i] = "enabling" /\ char'[i] = c /\ \A j \in Sub \ {i} : pc'[j] = pc[j] /\ char'[j] = char[j]
      BY <3>1 DEF Inv, Types
    <3>3. op = Enable(i)' /\ op.sub = i /\ op.char = c /\ op.notify
      BY <3>2 DEF Enable
    <3> HIDE DEF op
    <3> QED
      BY <3>1, <3>2, <3>3 DEF Asks
  <2>2. CASE EnableReturns(i)
    <3>1. PICK next \in {"enabled", "failed"} : pc' = [pc EXCEPT ![i] = next]
      BY <2>2 DEF EnableReturns
    <3> QED
      BY <2>2, <3>1 DEF EnableReturns, Inv, Types, Asks, Enable
  <2>3. CASE EnableAbandoned(i) \/ RefusalReturns(i)
    BY <2>3 DEF EnableAbandoned, RefusalReturns, Inv, Types, Asks, Enable
  <2>4. CASE RefuseOnClosed(i)
    <3>1. /\ \A j \in Sub : pc'[j] # pc[j] => pc[j] = "enabled" /\ pc'[j] \in {"refused", "replacing"}
          /\ pc' \in [Sub -> SubscribePC] /\ pc[i] = "enabled"
      BY <2>4 DEF RefuseOnClosed, Inv, Types, SubscribePC
    <3> QED
      BY <2>4, <3>1, BeginCloseOrders DEF RefuseOnClosed
  <2>5. CASE Register(i) \/ ReplaceReturns(i)
    BY <2>5 DEF Register, ReplaceReturns, Registered, Inv, Types, Asks, Enable
  <2>6. CASE Replace(i)
    <3> DEFINE old == registered[char[i]]
    <3>1. old \in Sub /\ pc[old] = "returned"
      BY <2>6 DEF Replace, Inv, Types, PlaceFacts, HeldFacts
    <3>2. /\ \A j \in Sub : pc'[j] # pc[j] => pc[j] = "enabled" /\ pc'[j] \in {"refused", "replacing"}
          /\ pc' \in [Sub -> SubscribePC]
      BY <2>6 DEF Replace, Inv, Types, SubscribePC
    <3> QED
      BY <2>6, <3>1, <3>2, BeginCloseOrders DEF Replace
  <2> QED
    BY <1>2, <2>1, <2>2, <2>3, <2>4, <2>5, <2>6 DEF Subscribing
<1>3. ASSUME NEW i \in Sub, CallerCancels(i) \/ EndClose(i) PROVE Asks
  BY <1>3 DEF CallerCancels, EndClose, call, Asks, Enable
<1>4. ASSUME NEW i \in Sub, Watching(i) PROVE Asks
  <2>1. CASE WatcherWakes(i) \/ WatcherExits(i)
    BY <2>1 DEF WatcherWakes, WatcherExits, call, Asks, Enable
  <2>2. CASE WatcherTakes(i)
    <3> DEFINE old == registered[char[i]]
    <3>1. UNCHANGED <<pc, char, callback>> /\ pc \in [Sub -> SubscribePC]
      BY <2>2 DEF WatcherTakes, call, Inv, Types
    <3>2. CASE old = NoSub
      BY <2>2, <3>1, <3>2 DEF WatcherTakes, Asks, Enable
    <3>3. CASE old # NoSub
      <4>1. old \in Sub /\ pc[old] = "returned"
        BY <2>2, <3>3 DEF WatcherTakes, Inv, Types, PlaceFacts, HeldFacts
      <4> QED
        BY <2>2, <3>1, <3>3, <4>1, BeginCloseOrders DEF WatcherTakes
    <3> QED
      BY <3>2, <3>3
  <2> QED
    BY <1>4, <2>1, <2>2 DEF Watching
<1>5. CASE Closing
  <2>1. CASE CallClose \/ CloseGoesOn \/ Disconnect
    BY <2>1 DEF CallClose, CloseGoesOn, Disconnect, call, Asks, Enable
  <2>2. ASSUME NEW i \in Sub, CloseBeginsOne(i) PROVE Asks
    <3>1. pc[i] = "returned" /\ UNCHANGED <<pc, char, callback>> /\ pc \in [Sub -> SubscribePC]
      BY <2>2 DEF CloseBeginsOne, call, Inv, Types, HeldFacts
    <3> QED
      BY <2>2, <3>1, BeginCloseOrders DEF CloseBeginsOne
  <2>3. ASSUME NEW i \in Sub, CloseEndsOne(i) \/ CloseFailsOne(i) PROVE Asks
    BY <2>3 DEF CloseEndsOne, CloseFailsOne, call, Asks, Enable
  <2> QED
    BY <1>5, <2>1, <2>2, <2>3 DEF Closing
<1> QED
  BY <1>1, <1>2, <1>3, <1>4, <1>5 DEF Next

LEMMA AsksKeepsHeard ==
    ASSUME Inv, RadioTypes, AskedFacts, ReadyIsHeard, [Next]_vars, Asks
    PROVE  AskedFacts' /\ ReadyIsHeard'
<1>1. \A i \in Sub : state[i] # "open" => state'[i] # "open"
  BY StateChanges
<1>2. \A op \in radio : op.sub \in Sub
  BY DEF RadioTypes, Operation
<1>3. AskedFacts'
  BY <1>1, <1>2 DEF AskedFacts, Asks
<1>4. ASSUME NEW i \in Sub, Ready(i)' PROVE Heard(i)'
  <2>1. Ready(i) /\ pc[i] # "none" /\ char'[i] = char[i]
    <3>1. CASE pc'[i] = pc[i]
      <4>1. pc[i] # "none" /\ char'[i] = char[i] /\ Enable(i)' = Enable(i)
        BY <1>4, <3>1 DEF Ready, Asks, Enable
      <4> QED
        BY <1>1, <1>4, <3>1, <4>1 DEF Ready, Asks
    <3>2. CASE pc'[i] # pc[i]
      BY <1>1, <1>4, <3>2 DEF Ready, Asks
    <3> QED
      BY <3>1, <3>2
  <2>2. Heard(i) /\ char[i] \in Char
    BY <2>1 DEF ReadyIsHeard, Inv, PlaceFacts
  <2>3. \A j \in Sub : char[j] = char[i] => char'[j] = char[j]
    BY <2>2, ConstantsAssumption DEF AskedFacts, Asks
  <2> QED
    BY <1>1, <2>1, <2>2, <2>3 DEF Heard, Asks
<1> QED
  BY <1>3, <1>4 DEF ReadyIsHeard

LEMMA PerformingKeepsHeard ==
    ASSUME Inv, RadioTypes, AskedFacts, ReadyIsHeard, RadioPerforms
    PROVE  AskedFacts' /\ ReadyIsHeard'
<1>1. PICK op \in radio :
          /\ radio' = radio \ {op}
          /\ callback' = [callback EXCEPT ![op.char] = IF op.notify THEN op.sub ELSE NoSub]
  BY DEF RadioPerforms
<1>2. UNCHANGED <<pc, char, state>>
  BY DEF RadioPerforms, call
<1>3. op \in Operation /\ op.sub \in Sub /\ op.char = char[op.sub] /\ (~op.notify => state[op.sub] # "open")
  BY DEF RadioTypes, AskedFacts, Operation
<1>4. AskedFacts'
  BY <1>1, <1>2 DEF AskedFacts
<1>5. ASSUME NEW i \in Sub, Ready(i)' PROVE Heard(i)'
  <2>1. CASE op.char = char[i]
    <3>1. callback'[char[i]] = IF op.notify THEN op.sub ELSE NoSub
      BY <1>1, <1>3, <2>1 DEF RadioTypes, Operation
    <3>2. ~op.notify => op.sub # i
      BY <1>2, <1>3, <1>5 DEF Ready
    <3> QED
      BY <1>2, <1>3, <2>1, <3>1, <3>2 DEF Heard
  <2>2. CASE op.char # char[i]
    <3>1. op # Enable(i) /\ Enable(i)' = Enable(i)
      BY <1>2, <2>2 DEF Enable
    <3>2. Ready(i)
      BY <1>1, <1>2, <1>5, <3>1 DEF Ready
    <3>3. char[i] \in Char /\ callback'[char[i]] = callback[char[i]]
      BY <1>1, <2>2, <3>2 DEF RadioTypes, Ready, Inv, PlaceFacts
    <3> QED
      BY <1>2, <3>2, <3>3 DEF ReadyIsHeard, Heard
  <2> QED
    BY <2>1, <2>2
<1> QED
  BY <1>4, <1>5 DEF ReadyIsHeard

LEMMA RefusalKeepsHeard ==
    ASSUME Inv, RadioTypes, AskedFacts, ReadyIsHeard, RadioRefuses
    PROVE  AskedFacts' /\ ReadyIsHeard'
<1>1. PICK op \in radio :
          /\ radio' = radio \ {op}
          /\ pc' = IF op.notify /\ pc[op.sub] = "enabling" THEN [pc EXCEPT ![op.sub] = "failed"] ELSE pc
  BY DEF RadioRefuses
<1>2. UNCHANGED <<char, state, callback>>
  BY DEF RadioRefuses
<1>3. op \in Operation /\ op.sub \in Sub /\ op.char = char[op.sub]
  BY DEF RadioTypes, AskedFacts, Operation
<1>4. \A j \in Sub : pc'[j] = pc[j] \/ (pc[j] = "enabling" /\ pc'[j] = "failed")
  BY <1>1, <1>3 DEF Inv, Types
<1>5. \A o \in radio : o.sub \in Sub
  BY DEF RadioTypes, Operation
<1>6. AskedFacts'
  BY <1>1, <1>2, <1>4, <1>5 DEF AskedFacts
<1>7. ASSUME NEW i \in Sub, Ready(i)' PROVE Heard(i)'
  <2>1. Enable(i)' = Enable(i) /\ pc'[i] = pc[i]
    BY <1>2, <1>4, <1>7 DEF Enable, Ready
  <2>2. ASSUME op = Enable(i), pc[i] = "enabling" PROVE FALSE
    <3>1. op.notify /\ op.sub = i
      BY <2>2 DEF Enable
    <3>2. pc'[i] = "failed"
      BY <1>1, <2>2, <3>1 DEF Inv, Types
    <3> QED
      BY <2>1, <2>2, <3>2
  <2>3. Ready(i)
    BY <1>1, <1>2, <1>7, <2>1, <2>2 DEF Ready
  <2> QED
    BY <1>2, <2>3 DEF ReadyIsHeard, Heard
<1> QED
  BY <1>6, <1>7 DEF ReadyIsHeard

LEMMA StepKeepsHeard == Inv /\ RadioTypes /\ AskedFacts /\ ReadyIsHeard /\ [Next]_vars => AskedFacts' /\ ReadyIsHeard'
BY StepAsks, AsksKeepsHeard, PerformingKeepsHeard, RefusalKeepsHeard

(***************************************************************************)
(* A subscription that Subscribe of connection_darwin.go has handed out    *)
(* and nobody has closed is notified by the radio, for any order of        *)
(* calls, answers and refusals, unless another call for its characteristic *)
(* has come in between: the order in which a replacement enables the new   *)
(* callback and disables the old one harms nobody else.                    *)
(***************************************************************************)
THEOREM OpenSubscriptionsAreHeard == Spec => []OpenIsHeard
<1>1. Init => AskedFacts /\ ReadyIsHeard
  BY DEF Init, AskedFacts, ReadyIsHeard, Ready
<1>2. ReadyIsHeard => OpenIsHeard
  BY DEF ReadyIsHeard, Ready, OpenIsHeard
<1> QED
  BY <1>1, <1>2, InitInv, InitRest, StepKeepsInv, StepKeepsRadioTypes, StepKeepsHeard, PTL DEF Spec
=============================================================================
