-------------------------- MODULE HandlerMuxProofs --------------------------
(***************************************************************************)
(* Proofs about HandlerMux, for any threads, clients, kinds and handlers.  *)
(***************************************************************************)
EXTENDS HandlerMux, SequenceLemmas, FiniteSetTheorems

\* The bounds are numbers.
LEMMA BoundsAreNat == MaxClients \in Nat /\ MaxIds \in Nat
BY MuxAssumption DEF MuxAssumption

----------------------------------------------------------------------------
(* Operators of the model *)

\* A slot is a client and a kind.
LEMMA SlotParts == \A s \in Slots : s[1] \in Addrs /\ s[2] \in Kinds /\ s = <<s[1], s[2]>>
BY DEF Slots

\* There is a slot for arg to start with.
LEMMA SomeSlot == (CHOOSE s \in Slots : TRUE) \in Slots
<1>1. PICK a \in Addrs, k \in Kinds : TRUE
  BY MuxAssumption DEF MuxAssumption
<1>2. <<a, k>> \in Slots
  BY DEF Slots
<1> QED
  BY <1>2

----------------------------------------------------------------------------
(* Types *)

Registering == {u \in Threads : pc[u] \in {"onLock", "on"}}

\* There is room for the ids and bridges of the registrations under way, the
\* two maps of a kind have the same clients, and no id is used before it is
\* issued.
Counted ==
  /\ nextHandlerID + Cardinality(Registering) <= MaxIds
  /\ nBridges <= nextHandlerID
  /\ DOMAIN handlers = DOMAIN bridges
  /\ \A s \in DOMAIN handlers : handlers[s] \subseteq 1 .. nextHandlerID

TypeInv == TypeOK /\ Counted

\* A range-for starts at the first position.
IterStarted == \A t \in Threads : pc[t] = "iter" => it[t] # 0

\* The types and counts hold at first.
LEMMA TypeInit == Init => TypeInv
<1> SUFFICES ASSUME Init PROVE TypeInv
  OBVIOUS
<1> USE BoundsAreNat
<1>1. arg \in [Threads -> Slots]
  BY SomeSlot DEF Init
<1>2. DOMAIN handlers = {} /\ DOMAIN bridges = {} /\ handle \in [1 .. nextHandlerID -> (Addrs \cup {NoAddr}) \X Kinds]
  BY DEF Init
<1>3. registry \in [Slots -> Seq(Bridges)] /\ called \in [Threads -> Seq(Ids)]
  BY DEF Init
<1>4. /\ nextHandlerID = 0 /\ nBridges = 0 /\ nClients = 0
      /\ idAtStart = [t \in Threads |-> 0] /\ it = [t \in Threads |-> 0] /\ end = [t \in Threads |-> 0]
  BY DEF Init
<1>5. /\ nextHandlerID \in 0 .. MaxIds /\ nBridges \in 0 .. MaxIds /\ nClients \in 0 .. MaxClients
      /\ idAtStart \in [Threads -> 0 .. MaxIds] /\ it \in [Threads -> Nat] /\ end \in [Threads -> Nat]
  BY <1>4
<1>6. Registering = {}
  BY DEF Init, Registering
<1>7. Counted
  BY <1>2, <1>4, <1>6, FS_EmptySet DEF Counted
<1>8. TypeOK
  BY <1>1, <1>2, <1>3, <1>5 DEF TypeOK, Init, Pcs
<1> QED
  BY <1>7, <1>8 DEF TypeInv

\* A step of a thread that is not registering, to where it is not either.
LEMMA CountedKept ==
  ASSUME TypeInv, NEW t \in Threads, NEW l, Goto(t, l),
         pc[t] \in {"onLock", "on"} <=> l \in {"onLock", "on"},
         UNCHANGED <<nextHandlerID, nBridges, handlers, bridges>>
  PROVE  Counted'
<1>1. Registering' = Registering
  BY DEF TypeInv, TypeOK, Goto, Registering
<1> QED
  BY <1>1 DEF TypeInv, Counted

\* ClientOnX takes one of the ids that are left.
LEMMA OnType ==
  ASSUME TypeInv, NEW t \in Threads, NEW s \in Slots, On(t, s)
  PROVE  TypeInv'
<1>1. Registering' = Registering \cup {t} /\ t \notin Registering
  BY DEF TypeInv, TypeOK, On, MayCall, Goto, Registering
<1>2. IsFiniteSet(Registering)
  BY MuxAssumption, FS_Subset DEF MuxAssumption, Registering
<1>3. /\ Cardinality(Registering') = Cardinality(Registering) + 1
      /\ Cardinality(Registering) \in Nat
  BY <1>1, <1>2, FS_AddElement, FS_CardinalityType
<1>4. nextHandlerID + Cardinality(Registering) < MaxIds
  BY DEF On, Registering
<1>5. nextHandlerID' = nextHandlerID /\ nextHandlerID \in Nat
  BY BoundsAreNat DEF On, goVars, TypeInv, TypeOK
<1>6. nextHandlerID' + Cardinality(Registering') <= MaxIds
  BY <1>3, <1>4, <1>5, BoundsAreNat
<1>7. Counted'
  BY <1>6 DEF TypeInv, Counted, On, goVars, cVars
<1>8. TypeOK'
  BY DEF TypeInv, TypeOK, On, MayCall, Goto, goVars, cVars, iterVars, Pcs
<1> QED
  BY <1>7, <1>8 DEF TypeInv

\* Taking handlersMu keeps the types.
LEMMA LocksType ==
  ASSUME TypeInv, NEW t \in Threads, Locks(t)
  PROVE  TypeInv'
<1>1. \E from, to \in Pcs : Lock(t, from, to) /\ (from \in {"onLock", "on"} <=> to \in {"onLock", "on"})
  BY DEF Locks, OnLock, OffLock, ClearLock, SnapLock, Pcs
<1>2. PICK from \in Pcs, to \in Pcs :
        Lock(t, from, to) /\ (from \in {"onLock", "on"} <=> to \in {"onLock", "on"})
  BY <1>1
<1>3. Counted'
  BY <1>2, CountedKept DEF Lock, cVars
<1>4. TypeOK'
  BY <1>2 DEF TypeInv, TypeOK, Lock, Goto, cVars, iterVars
<1> QED
  BY <1>3, <1>4 DEF TypeInv

\* A call returns to where the thread was, and registers no more.
LEMMA ReturnType ==
  ASSUME TypeInv, NEW t \in Threads, Return(t)
  PROVE  /\ pc' \in [Threads -> Pcs] /\ back' \in [Threads -> {"idle", "handler"}]
         /\ target' \in [Threads -> Ids \cup {0}]
         /\ Registering' = Registering \ {t}
BY DEF TypeInv, TypeOK, Return, Goto, Pcs, Registering

\* A registration issues the next id and at most as many bridges as ids.
LEMMA OnBodyType ==
  ASSUME TypeInv, NEW t \in Threads, OnBody(t)
  PROVE  TypeInv'
<1> DEFINE s == arg[t]
<1>1. s \in Slots /\ nextHandlerID \in Nat /\ nBridges \in Nat
  BY BoundsAreNat DEF TypeInv, TypeOK
<1>2. t \in Registering /\ IsFiniteSet(Registering)
  BY MuxAssumption, FS_Subset DEF OnBody, Registering, MuxAssumption
<1>3. /\ Cardinality(Registering \ {t}) = Cardinality(Registering) - 1
      /\ Cardinality(Registering) \in Nat /\ Cardinality(Registering \ {t}) \in Nat
  BY <1>2, FS_RemoveElement, FS_CardinalityType
<1>4. /\ nextHandlerID' = nextHandlerID + 1
      /\ handlers' = With(handlers, s, At(handlers, s) \cup {nextHandlerID + 1})
      /\ Return(t)
  BY DEF OnBody, nextID
<1> HIDE DEF s
<1>5. nextHandlerID' + Cardinality(Registering') <= MaxIds
  <2>1. Registering' = Registering \ {t}
    BY <1>4, ReturnType
  <2>2. nextHandlerID + Cardinality(Registering) <= MaxIds
    BY DEF TypeInv, Counted
  <2> QED
    BY <1>1, <1>3, <1>4, <2>1, <2>2, BoundsAreNat
<1>6. nextHandlerID' \in 1 .. MaxIds
  BY <1>1, <1>3, <1>4, BoundsAreNat DEF TypeInv, Counted
<1>7. /\ DOMAIN handlers' = DOMAIN handlers \cup {s}
      /\ handlers'[s] = At(handlers, s) \cup {nextHandlerID + 1}
      /\ \A x \in DOMAIN handlers \ {s} : handlers'[x] = handlers[x]
  BY <1>4 DEF With
<1>8. /\ nBridges' \in 0 .. MaxIds /\ nBridges' <= nextHandlerID'
      /\ registry' \in [Slots -> Seq(Bridges)]
      /\ DOMAIN bridges' = DOMAIN handlers'
      /\ \A x \in DOMAIN bridges' : bridges'[x] \in Bridges
  <2>1. CASE s \in DOMAIN handlers
    <3>1. UNCHANGED <<registry, nBridges, bridges>> /\ DOMAIN handlers' = DOMAIN handlers
      BY <1>7, <2>1 DEF OnBody, s
    <3> QED
      BY <1>1, <1>4, <3>1 DEF TypeInv, TypeOK, Counted
  <2>2. CASE s \notin DOMAIN handlers
    <3>1. /\ nBridges' = nBridges + 1
          /\ registry' = [registry EXCEPT ![s] = Append(@, nBridges + 1)]
          /\ bridges' = With(bridges, s, nBridges + 1)
      BY <2>2 DEF OnBody, s
    <3>2. nBridges + 1 \in Bridges /\ nBridges' <= nextHandlerID' /\ nBridges' \in 0 .. MaxIds
      BY <1>1, <1>4, <1>6, <3>1, BoundsAreNat DEF TypeInv, Counted, Bridges
    <3>3. Append(registry[s], nBridges + 1) \in Seq(Bridges)
      BY <1>1, <3>2 DEF TypeInv, TypeOK
    <3>4. /\ DOMAIN bridges' = DOMAIN bridges \cup {s}
          /\ bridges'[s] = nBridges + 1
          /\ \A x \in DOMAIN bridges \ {s} : bridges'[x] = bridges[x]
      BY <3>1 DEF With
    <3> QED
      BY <1>1, <1>7, <3>1, <3>2, <3>3, <3>4 DEF TypeInv, TypeOK, Counted
  <2> QED
    BY <2>1, <2>2
<1>9. \A x \in DOMAIN handlers' : handlers'[x] \subseteq 1 .. nextHandlerID'
  <2>1. 1 .. nextHandlerID \subseteq 1 .. nextHandlerID' /\ nextHandlerID + 1 \in 1 .. nextHandlerID'
    BY <1>1, <1>4
  <2>2. At(handlers, s) \subseteq 1 .. nextHandlerID
    BY DEF At, TypeInv, Counted
  <2> QED
    BY <1>7, <2>1, <2>2 DEF TypeInv, Counted
<1>10. \A x \in DOMAIN handlers' : x \in Slots /\ handlers'[x] \subseteq Ids
  BY <1>1, <1>6, <1>7, <1>9, BoundsAreNat DEF TypeInv, TypeOK, Ids
<1>11. handle' \in [1 .. nextHandlerID' -> (Addrs \cup {NoAddr}) \X Kinds]
  <2> DEFINE H == (Addrs \cup {NoAddr}) \X Kinds
  <2>1. handle \in Seq(H) /\ Len(handle) = nextHandlerID
    <3>1. handle \in [1 .. nextHandlerID -> H]
      BY DEF TypeInv, TypeOK
    <3>2. nextHandlerID \in Nat
      BY <1>1
    <3> HIDE DEF H
    <3> QED
      BY <3>1, <3>2, FunctionIsSeq
  <2>2. s \in H
    BY <1>1 DEF Slots
  <2>3. handle' = Append(handle, s)
    BY DEF OnBody, s
  <2> HIDE DEF H
  <2>4. handle' \in Seq(H) /\ Len(handle') = nextHandlerID + 1
    BY <2>1, <2>2, <2>3, AppendProperties
  <2>5. handle' \in [1 .. nextHandlerID + 1 -> H]
    BY <2>4, LenProperties
  <2> QED
    BY <1>4, <2>5 DEF H
<1>12. TypeOK'
  <2>1. /\ handlersMu' = NoThread
        /\ UNCHANGED <<client, nClients, arg, it, end, current, todo, atStart, idAtStart, called>>
    BY DEF OnBody, iterVars
  <2>2. nextHandlerID' \in 0 .. MaxIds /\ DOMAIN bridges' \subseteq Slots /\ DOMAIN handlers' \subseteq Slots
    BY <1>6, <1>8, <1>10, BoundsAreNat
  <2> QED
    BY <1>4, <1>8, <1>10, <1>11, <2>1, <2>2, ReturnType DEF TypeInv, TypeOK
<1>13. Counted'
  BY <1>5, <1>8, <1>9 DEF Counted
<1> QED
  BY <1>12, <1>13 DEF TypeInv

\* ClientOffHandler is about the slot of its client and the kind of the handle.
LEMMA OffType ==
  ASSUME TypeInv, NEW t \in Threads,
         (\E a \in Addrs, id \in Ids : Off(t, a, id)) \/ OffCheck(t)
  PROVE  TypeInv'
<1>1. CASE \E a \in Addrs, id \in Ids : Off(t, a, id)
  <2>1. PICK a \in Addrs, id \in Ids : Off(t, a, id)
    BY <1>1
  <2>2. handle[id][2] \in Kinds
    BY <2>1 DEF Off, TypeInv, TypeOK
  <2>3. arg' \in [Threads -> Slots]
    BY <2>1, <2>2 DEF Off, TypeInv, TypeOK, Slots
  <2>4. Counted'
    BY <2>1, CountedKept DEF Off, MayCall, goVars, cVars
  <2>5. TypeOK'
    BY <2>1, <2>3 DEF Off, MayCall, Goto, goVars, cVars, iterVars, Pcs, TypeInv, TypeOK
  <2> QED
    BY <2>4, <2>5 DEF TypeInv
<1>2. CASE OffCheck(t)
  <2>1. (Goto(t, "offLock") /\ UNCHANGED <<back, target>>) \/ Return(t)
    BY <1>2 DEF OffCheck
  <2>2. Counted'
    BY <1>2, <2>1, CountedKept DEF OffCheck, Return, goVars, cVars, TypeInv, TypeOK
  <2>3. /\ pc' \in [Threads -> Pcs] /\ back' \in [Threads -> {"idle", "handler"}]
        /\ target' \in [Threads -> Ids \cup {0}]
    BY <2>1, ReturnType DEF Goto, Pcs, TypeInv, TypeOK
  <2>4. TypeOK'
    BY <1>2, <2>3 DEF OffCheck, goVars, cVars, iterVars, TypeInv, TypeOK
  <2> QED
    BY <2>2, <2>4 DEF TypeInv
<1> QED
  BY <1>1, <1>2

\* A removal keeps the types.
LEMMA OffBodyType ==
  ASSUME TypeInv, NEW t \in Threads, OffBody(t)
  PROVE  TypeInv'
<1> DEFINE s  == arg[t]
           id == target[t]
<1>1. s \in Slots
  BY DEF TypeInv, TypeOK
<1>2. /\ handle' = [handle EXCEPT ![id] = <<NoAddr, @[2]>>]
      /\ handlersMu' = NoThread
      /\ Return(t)
      /\ UNCHANGED <<nextHandlerID, client, nClients, nBridges, arg, it, end, current, todo,
                     atStart, idAtStart, called>>
      /\ pc[t] = "off"
  BY DEF OffBody, iterVars
<1>3. /\ DOMAIN handlers' \subseteq DOMAIN handlers
      /\ \A x \in DOMAIN handlers' : handlers'[x] \subseteq handlers[x]
      /\ DOMAIN bridges' = DOMAIN handlers'
      /\ \A x \in DOMAIN bridges' : bridges'[x] = bridges[x]
      /\ registry' \in [Slots -> Seq(Bridges)]
  <2>1. DOMAIN handlers = DOMAIN bridges
    BY DEF TypeInv, Counted
  <2>2. CASE UNCHANGED <<handlers, bridges, registry>>
    BY <2>1, <2>2 DEF TypeInv, TypeOK
  <2>3. CASE /\ handlers' = [handlers EXCEPT ![s] = @ \ {id}]
             /\ UNCHANGED <<bridges, registry>>
    BY <2>1, <2>3 DEF TypeInv, TypeOK
  <2>4. CASE /\ registry' = Unregistered(s)
             /\ handlers' = Without(handlers, {s})
             /\ bridges' = Without(bridges, {s})
    <3>1. RemoveFirst(registry[s], bridges[s]) \in Seq(Bridges)
      BY <1>1, RemoveFirstType DEF TypeInv, TypeOK
    <3>2. registry' \in [Slots -> Seq(Bridges)]
      BY <1>1, <2>4, <3>1 DEF Unregistered, TypeInv, TypeOK
    <3> QED
      BY <2>1, <2>4, <3>2 DEF Without, Restrict
  <2> QED
    BY <2>2, <2>3, <2>4 DEF OffBody
<1>4. handle' \in [1 .. nextHandlerID -> (Addrs \cup {NoAddr}) \X Kinds]
  BY <1>2 DEF TypeInv, TypeOK
<1>5. TypeOK'
  <2>1. /\ DOMAIN handlers' \subseteq Slots /\ \A x \in DOMAIN handlers' : handlers'[x] \subseteq Ids
        /\ DOMAIN bridges' \subseteq Slots /\ \A x \in DOMAIN bridges' : bridges'[x] \in Bridges
    BY <1>3 DEF TypeInv, TypeOK, Counted
  <2> QED
    BY <1>2, <1>3, <1>4, <2>1, ReturnType DEF TypeInv, TypeOK
<1>6. Registering' = Registering
  BY <1>2, ReturnType DEF Registering
<1>7. Counted'
  BY <1>2, <1>3, <1>6 DEF TypeInv, Counted
<1> QED
  BY <1>5, <1>7 DEF TypeInv

\* The steps of ClientDestroy keep the types.
LEMMA DestructionType ==
  ASSUME TypeInv, NEW t \in Threads,
         (\E a \in Addrs : Destroy(t, a)) \/ Clear(t) \/ Free(t)
  PROVE  TypeInv'
<1> USE DEF goVars, cVars, iterVars, Pcs
<1>1. CASE \E a \in Addrs : Destroy(t, a)
  <2>1. PICK a \in Addrs : Destroy(t, a)
    BY <1>1
  <2>2. Counted'
    BY <2>1, CountedKept DEF Destroy
  <2>3. arg' \in [Threads -> Slots]
    BY <2>1 DEF Destroy, TypeInv, TypeOK, Slots
  <2>4. TypeOK'
    BY <2>1, <2>3 DEF Destroy, Goto, TypeInv, TypeOK
  <2> QED
    BY <2>2, <2>4 DEF TypeInv
<1>2. CASE Clear(t)
  <2> DEFINE slots == {arg[t][1]} \X Kinds
  <2>1. /\ handlers' = Without(handlers, slots)
        /\ bridges' = Without(bridges, slots)
    BY <1>2 DEF Clear
  <2>2. /\ DOMAIN handlers' = DOMAIN handlers \ slots
        /\ \A x \in DOMAIN handlers' : handlers'[x] = handlers[x]
        /\ DOMAIN bridges' = DOMAIN bridges \ slots
        /\ \A x \in DOMAIN bridges' : bridges'[x] = bridges[x]
    BY <2>1 DEF Without, Restrict
  <2> HIDE DEF slots
  <2>3. Registering' = Registering
    BY <1>2 DEF Clear, Goto, Registering, TypeInv, TypeOK
  <2>4. UNCHANGED <<nextHandlerID, nBridges>>
    BY <1>2 DEF Clear
  <2>5. Counted'
    BY <2>2, <2>3, <2>4 DEF TypeInv, Counted
  <2>6. TypeOK'
    BY <1>2, <2>2 DEF Clear, Goto, TypeInv, TypeOK
  <2> QED
    BY <2>5, <2>6 DEF TypeInv
<1>3. CASE Free(t)
  <2>1. Counted'
    BY <1>3, CountedKept DEF Free
  <2>2. registry' \in [Slots -> Seq(Bridges)]
    BY <1>3 DEF Free, TypeInv, TypeOK
  <2>3. TypeOK'
    BY <1>3, <2>2 DEF Free, Goto, TypeInv, TypeOK
  <2> QED
    BY <2>1, <2>3 DEF TypeInv
<1> QED
  BY <1>1, <1>2, <1>3

\* Creating a client keeps the types.
LEMMA CreateType ==
  ASSUME TypeInv, NEW a \in Addrs, Create(a)
  PROVE  TypeInv'
<1>1. nClients' \in 0 .. MaxClients
  BY BoundsAreNat DEF Create, TypeInv, TypeOK
<1>2. TypeOK'
  BY <1>1 DEF Create, goVars, iterVars, TypeInv, TypeOK
<1>3. Counted'
  BY DEF Create, goVars, TypeInv, Counted, Registering
<1> QED
  BY <1>2, <1>3 DEF TypeInv

\* The steps of a dispatch keep the types.
LEMMA DispatchType ==
  ASSUME TypeInv, IterStarted, NEW t \in Threads,
         \/ \E s \in Slots : Dispatch(t, s)
         \/ Iterate(t) \/ DispatchEnds(t) \/ CallBridge(t) \/ Snapshot(t)
         \/ CallHandler(t) \/ HandlerReturns(t) \/ BridgeReturns(t)
  PROVE  TypeInv'
<1> USE DEF goVars, cVars, iterVars, Pcs
<1>1. CASE \E s \in Slots : Dispatch(t, s)
  <2>1. PICK s \in Slots : Dispatch(t, s)
    BY <1>1
  <2>2. Counted'
    BY <2>1, CountedKept DEF Dispatch
  <2>3. Len(registry[s]) \in Nat /\ At(handlers, s) \subseteq Ids /\ <<>> \in Seq(Ids)
    BY LenProperties DEF TypeInv, TypeOK, At
  <2>4. TypeOK'
    BY <2>1, <2>3 DEF Dispatch, Goto, TypeInv, TypeOK
  <2> QED
    BY <2>2, <2>4 DEF TypeInv
<1>2. CASE Iterate(t)
  <2>1. Counted'
    BY <1>2, CountedKept DEF Iterate
  <2>2. registry[arg[t]] \in Seq(Bridges) /\ it[t] \in Nat \ {0}
    BY <1>2 DEF TypeInv, TypeOK, IterStarted, Iterate
  <2>3. current'[t] \in Bridges \cup {0} /\ current' = [current EXCEPT ![t] = current'[t]]
    <3>1. it[t] <= Len(registry[arg[t]]) => registry[arg[t]][it[t]] \in Bridges
      BY <2>2, LenProperties, ElementOfSeq
    <3> QED
      BY <1>2, <3>1 DEF Iterate, TypeInv, TypeOK
  <2>4. TypeOK'
    BY <1>2, <2>3 DEF Iterate, Goto, TypeInv, TypeOK
  <2> QED
    BY <2>1, <2>4 DEF TypeInv
<1>3. CASE DispatchEnds(t)
  <2>1. Counted'
    BY <1>3, CountedKept DEF DispatchEnds
  <2>2. <<>> \in Seq(Ids) /\ 0 \in 0 .. MaxIds
    BY BoundsAreNat
  <2>3. TypeOK'
    BY <1>3, <2>2 DEF DispatchEnds, Goto, TypeInv, TypeOK
  <2> QED
    BY <2>1, <2>3 DEF TypeInv
<1>4. CASE CallBridge(t) \/ HandlerReturns(t)
  <2>1. Counted'
    BY <1>4, CountedKept DEF CallBridge, HandlerReturns
  <2>2. TypeOK'
    BY <1>4 DEF CallBridge, HandlerReturns, Goto, TypeInv, TypeOK
  <2> QED
    BY <2>1, <2>2 DEF TypeInv
<1>5. CASE Snapshot(t)
  <2>1. Counted'
    BY <1>5, CountedKept DEF Snapshot
  <2>2. At(handlers, arg[t]) \subseteq Ids
    BY DEF TypeInv, TypeOK, At
  <2>3. TypeOK'
    BY <1>5, <2>2 DEF Snapshot, Goto, TypeInv, TypeOK
  <2> QED
    BY <2>1, <2>3 DEF TypeInv
<1>6. CASE CallHandler(t)
  <2>1. Counted'
    BY <1>6, CountedKept DEF CallHandler
  <2>2. PICK id \in todo[t] :
          /\ todo' = [todo EXCEPT ![t] = @ \ {id}]
          /\ called' = [called EXCEPT ![t] = Append(@, id)]
    BY <1>6 DEF CallHandler
  <2>3. id \in Ids /\ Append(called[t], id) \in Seq(Ids)
    BY <2>2 DEF TypeInv, TypeOK
  <2>4. TypeOK'
    BY <1>6, <2>2, <2>3 DEF CallHandler, Goto, TypeInv, TypeOK
  <2> QED
    BY <2>1, <2>4 DEF TypeInv
<1>7. CASE BridgeReturns(t)
  <2>1. Counted'
    BY <1>7, CountedKept DEF BridgeReturns
  <2>2. it' \in [Threads -> Nat] /\ pc' \in [Threads -> Pcs]
    <3>1. it \in [Threads -> Nat] /\ it' = [it EXCEPT ![t] = @ + 1]
      BY <1>7 DEF BridgeReturns, TypeInv, TypeOK
    <3>2. "iter" \in Pcs /\ pc \in [Threads -> Pcs] /\ pc' = [pc EXCEPT ![t] = "iter"]
      BY <1>7 DEF BridgeReturns, Goto, TypeInv, TypeOK, Pcs
    <3> QED
      BY <3>1, <3>2
  <2>3. TypeOK'
    BY <1>7, <2>2 DEF BridgeReturns, TypeInv, TypeOK
  <2> QED
    BY <2>1, <2>3 DEF TypeInv
<1> QED
  BY <1>1, <1>2, <1>3, <1>4, <1>5, <1>6, <1>7

\* Positions never go back to zero while the loop runs.
LEMMA IterStep == TypeOK /\ IterStarted /\ [Next]_vars => IterStarted'
<1> SUFFICES ASSUME TypeOK, IterStarted, [Next]_vars PROVE IterStarted'
  OBVIOUS
<1> USE DEF goVars, cVars, iterVars, TypeOK, IterStarted, Goto
<1>1. ASSUME NEW t \in Threads, Calls(t) PROVE IterStarted'
  <2>1. ASSUME NEW s \in Slots, On(t, s) PROVE IterStarted'
    BY <2>1 DEF On
  <2>2. ASSUME NEW s \in Slots, Dispatch(t, s) PROVE IterStarted'
    BY <2>2 DEF Dispatch
  <2>3. ASSUME NEW a \in Addrs, Destroy(t, a) PROVE IterStarted'
    BY <2>3 DEF Destroy
  <2>4. ASSUME NEW a \in Addrs, NEW id \in Ids, Off(t, a, id) PROVE IterStarted'
    BY <2>4 DEF Off
  <2> QED
    BY <1>1, <2>1, <2>2, <2>3, <2>4 DEF Calls
<1>2. ASSUME NEW t \in Threads, Locks(t) PROVE IterStarted'
  BY <1>2 DEF Locks, OnLock, OffLock, ClearLock, SnapLock, Lock
<1>3. ASSUME NEW t \in Threads, OnBody(t) \/ OffCheck(t) \/ OffBody(t) PROVE IterStarted'
  <2>1. /\ UNCHANGED it
        /\ \E l \in {"idle", "handler", "offLock"} : Goto(t, l)
    BY <1>3 DEF OnBody, OffCheck, OffBody, Return
  <2> QED
    BY <2>1
<1>4. ASSUME NEW t \in Threads, Runs(t) \/ HandlerReturns(t) PROVE IterStarted'
  BY <1>3, <1>4 DEF Runs, Clear, Free, Iterate, DispatchEnds, CallBridge, Snapshot,
                    CallHandler, BridgeReturns, HandlerReturns
<1>5. ASSUME NEW a \in Addrs, Create(a) PROVE IterStarted'
  BY <1>5 DEF Create
<1>6. CASE UNCHANGED vars
  BY <1>6 DEF vars
<1> QED
  BY <1>1, <1>2, <1>4, <1>5, <1>6 DEF Next

\* Every step keeps the types and counts.
LEMMA TypeStep == TypeInv /\ IterStarted /\ [Next]_vars => TypeInv'
<1> SUFFICES ASSUME TypeInv, IterStarted, [Next]_vars PROVE TypeInv'
  OBVIOUS
<1>1. ASSUME NEW t \in Threads, NEW s \in Slots, On(t, s) PROVE TypeInv'
  BY <1>1, OnType
<1>2. ASSUME NEW t \in Threads, Locks(t) PROVE TypeInv'
  BY <1>2, LocksType
<1>3. ASSUME NEW t \in Threads, OnBody(t) PROVE TypeInv'
  BY <1>3, OnBodyType
<1>4. ASSUME NEW t \in Threads,
             (\E a \in Addrs, id \in Ids : Off(t, a, id)) \/ OffCheck(t)
      PROVE  TypeInv'
  BY <1>4, OffType
<1>5. ASSUME NEW t \in Threads, OffBody(t) PROVE TypeInv'
  BY <1>5, OffBodyType
<1>6. ASSUME NEW t \in Threads,
             (\E a \in Addrs : Destroy(t, a)) \/ Clear(t) \/ Free(t)
      PROVE  TypeInv'
  BY <1>6, DestructionType
<1>7. ASSUME NEW a \in Addrs, Create(a) PROVE TypeInv'
  BY <1>7, CreateType
<1>8. ASSUME NEW t \in Threads,
             \/ \E s \in Slots : Dispatch(t, s)
             \/ Iterate(t) \/ DispatchEnds(t) \/ CallBridge(t) \/ Snapshot(t)
             \/ CallHandler(t) \/ HandlerReturns(t) \/ BridgeReturns(t)
      PROVE  TypeInv'
  BY <1>8, DispatchType
<1>9. CASE UNCHANGED vars
  BY <1>9 DEF vars, goVars, cVars, iterVars, TypeInv, TypeOK, Counted, Registering
<1> QED
  BY <1>1, <1>2, <1>3, <1>4, <1>5, <1>6, <1>7, <1>8, <1>9 DEF Next, Calls, Runs

\* Every reachable state is well typed, and there are never more handlers and
\* bridges than were asked for.
THEOREM TypeCorrect == Spec => []TypeOK
<1>1. Init => IterStarted
  BY DEF Init, IterStarted
<1>2. TypeInv => TypeOK
  BY DEF TypeInv
<1> QED
  BY <1>1, <1>2, TypeInit, TypeStep, IterStep, PTL DEF Spec

----------------------------------------------------------------------------
(* The maps and the vectors *)

\* A thread of the program works on a live client; the one that destroys clients
\* does nothing else.
Placement ==
  \A t \in Threads :
    /\ pc[t] \notin Destroying \cup {"idle"} => client[arg[t][1]] = "live" /\ t # Finalizer
    /\ pc[t] \in Destroying => client[arg[t][1]] = "dying" /\ t = Finalizer

\* What the three layers hold of a slot: nothing, when there is no client, and
\* the same, when there is one; in between they differ.
Agree(s) ==
  /\ client[s[1]] = "none" => s \notin DOMAIN handlers /\ registry[s] = <<>>
  /\ client[s[1]] = "live" =>
       IF s \in DOMAIN handlers
         THEN handlers[s] # {} /\ registry[s] = <<bridges[s]>>
         ELSE registry[s] = <<>>

Emptied ==
  \A t \in Threads, k \in Kinds : pc[t] = "free" => <<arg[t][1], k>> \notin DOMAIN handlers

MuxInv == Placement /\ Emptied /\ \A s \in Slots : Agree(s)

\* A step within a call, to where the thread is in the same call, or out of it.
LEMMA PlacementKept ==
  ASSUME TypeInv, Placement, NEW t \in Threads, NEW l,
         Goto(t, l), UNCHANGED <<client, arg>>,
         \/ l = "idle"
         \/ pc[t] \notin Destroying \cup {"idle"} /\ l \notin Destroying
         \/ pc[t] \in Destroying /\ l \in Destroying
  PROVE  Placement'
BY DEF Placement, TypeInv, TypeOK, Goto, Destroying

\* A call on a live client.
LEMMA PlacementEntered ==
  ASSUME TypeInv, Placement, NEW t \in Threads, NEW l, NEW s \in Slots,
         Goto(t, l), UNCHANGED client, arg' = [arg EXCEPT ![t] = s],
         client[s[1]] = "live", l \notin Destroying, t # Finalizer
  PROVE  Placement'
BY DEF Placement, TypeInv, TypeOK, Goto, Destroying

\* Every step keeps threads where the state of their client allows.
LEMMA PlacementStep ==
  ASSUME KeepsUsing, TypeInv, Placement, [Next]_vars
  PROVE  Placement'
<1> USE DEF goVars, cVars, iterVars, Destroying
<1>1. ASSUME NEW t \in Threads, NEW s \in Slots, On(t, s) \/ Dispatch(t, s) PROVE Placement'
  BY <1>1, PlacementEntered DEF On, Dispatch, MayCall
<1>2. ASSUME NEW t \in Threads, NEW a \in Addrs, NEW id \in Ids, Off(t, a, id)
      PROVE  Placement'
  <2>1. <<a, handle[id][2]>> \in Slots
    BY <1>2 DEF Off, TypeInv, TypeOK, Slots
  <2> QED
    BY <1>2, <2>1, PlacementEntered DEF Off, MayCall
<1>3. ASSUME NEW t \in Threads, Locks(t) PROVE Placement'
  BY <1>3, PlacementKept DEF Locks, OnLock, OffLock, ClearLock, SnapLock, Lock
<1>4. ASSUME NEW t \in Threads, OnBody(t) \/ OffCheck(t) \/ OffBody(t) PROVE Placement'
  <2>1. /\ UNCHANGED <<client, arg>>
        /\ pc[t] \in {"on", "offCheck", "off"}
        /\ \E l \in {"idle", "handler", "offLock"} : Goto(t, l)
    BY <1>4 DEF OnBody, OffCheck, OffBody, Return, TypeInv, TypeOK
  <2> QED
    BY <2>1, PlacementKept
<1>5. ASSUME NEW t \in Threads,
             \/ Clear(t) \/ Iterate(t) \/ DispatchEnds(t) \/ CallBridge(t) \/ Snapshot(t)
             \/ CallHandler(t) \/ HandlerReturns(t) \/ BridgeReturns(t)
      PROVE  Placement'
  <2>1. /\ UNCHANGED <<client, arg>>
        /\ \/ pc[t] = "clear" /\ Goto(t, "free")
           \/ /\ pc[t] \in {"iter", "bridge", "snap", "handlers", "handler"}
              /\ \E l \in {"idle", "iter", "bridge", "snapLock", "handlers", "handler"} : Goto(t, l)
    BY <1>5 DEF Clear, Iterate, DispatchEnds, CallBridge, Snapshot, CallHandler,
                HandlerReturns, BridgeReturns
  <2> QED
    BY <2>1, PlacementKept
<1>6. ASSUME NEW t \in Threads, NEW a \in Addrs, Destroy(t, a) PROVE Placement'
  <2>1. /\ t = Finalizer
        /\ \A u \in Threads \ {t} : pc[u] \notin Destroying /\ (arg[u][1] = a => pc[u] = "idle")
    BY <1>6 DEF Destroy, LetsGo, Placement
  <2>2. /\ client' = [client EXCEPT ![a] = "dying"] /\ client[a] = "live"
        /\ pc' = [pc EXCEPT ![t] = "clearLock"]
        /\ arg' = [arg EXCEPT ![t] = <<a, @[2]>>]
    BY <1>6 DEF Destroy, Goto
  <2>3. \A u \in Threads \ {t} : pc'[u] = pc[u] /\ arg'[u] = arg[u]
    BY <2>2 DEF TypeInv, TypeOK
  <2>4. pc'[t] = "clearLock" /\ arg'[t][1] = a /\ client'[a] = "dying"
    BY <2>2 DEF TypeInv, TypeOK
  <2>5. \A u \in Threads \ {t} : arg[u][1] # a => client'[arg[u][1]] = client[arg[u][1]]
    BY <2>2, SlotParts DEF TypeInv, TypeOK
  <2> QED
    BY <2>1, <2>3, <2>4, <2>5 DEF Placement
<1>7. ASSUME NEW t \in Threads, Free(t) PROVE Placement'
  <2>1. /\ client' = [client EXCEPT ![arg[t][1]] = "none"] /\ client[arg[t][1]] = "dying"
        /\ pc' = [pc EXCEPT ![t] = "idle"] /\ arg' = arg
    BY <1>7 DEF Free, Goto, Placement
  <2>2. \A u \in Threads \ {t} : pc'[u] = pc[u] /\ pc[u] \notin Destroying
    BY <1>7, <2>1 DEF Free, Placement, TypeInv, TypeOK
  <2>3. \A u \in Threads \ {t} :
          client[arg[u][1]] = "live" => client'[arg[u][1]] = client[arg[u][1]]
    BY <2>1, SlotParts DEF TypeInv, TypeOK
  <2>4. pc'[t] = "idle"
    BY <2>1 DEF TypeInv, TypeOK
  <2> QED
    BY <2>1, <2>2, <2>3, <2>4 DEF Placement
<1>8. ASSUME NEW a \in Addrs, Create(a) PROVE Placement'
  <2>1. client' = [client EXCEPT ![a] = "live"] /\ client[a] = "none" /\ pc' = pc /\ arg' = arg
    BY <1>8 DEF Create
  <2>2. \A u \in Threads :
          client[arg[u][1]] # "none" => client'[arg[u][1]] = client[arg[u][1]]
    BY <2>1, SlotParts DEF TypeInv, TypeOK
  <2> QED
    BY <2>1, <2>2 DEF Placement
<1>9. CASE UNCHANGED vars
  BY <1>9 DEF vars, Placement
<1> QED
  BY <1>1, <1>2, <1>3, <1>4, <1>5, <1>6, <1>7, <1>8, <1>9 DEF Next, Calls, Runs

\* The steps that leave maps, vectors and clients alone.
LEMMA AgreeKept ==
  ASSUME TypeInv, MuxInv, UNCHANGED <<client, registry, handlers, bridges>>,
         \/ UNCHANGED arg
         \/ \E t \in Threads : pc[t] # "free" /\ \E s : arg' = [arg EXCEPT ![t] = s],
         \A t \in Threads : pc'[t] = "free" => pc[t] = "free"
  PROVE  Emptied' /\ \A s \in Slots : Agree(s)'
<1>1. \A s \in Slots : Agree(s)'
  BY DEF MuxInv, Agree
<1>2. \A t \in Threads : pc'[t] = "free" => arg'[t] = arg[t]
  BY DEF TypeInv, TypeOK
<1> QED
  BY <1>1, <1>2 DEF MuxInv, Emptied

\* A registration or removal changes one slot, which has a live client.
LEMMA OneSlotChanges ==
  ASSUME TypeInv, MuxInv, NEW t \in Threads, pc[t] \in {"on", "off"},
         UNCHANGED <<client, arg>>, Return(t),
         \A s \in Slots \ {arg[t]} :
           /\ s \in DOMAIN handlers' <=> s \in DOMAIN handlers
           /\ registry'[s] = registry[s]
           /\ s \in DOMAIN handlers => handlers'[s] = handlers[s] /\ bridges'[s] = bridges[s],
         Agree(arg[t])'
  PROVE  Emptied' /\ \A s \in Slots : Agree(s)'
<1>1. client[arg[t][1]] = "live" /\ arg[t] \in Slots
  BY DEF MuxInv, Placement, Destroying, TypeInv, TypeOK
<1>2. \A s \in Slots \ {arg[t]} : Agree(s)'
  BY DEF MuxInv, Agree
<1>3. ASSUME NEW u \in Threads, NEW k \in Kinds, pc'[u] = "free"
      PROVE  <<arg'[u][1], k>> \notin DOMAIN handlers'
  <2>1. pc[u] = "free"
    BY <1>3 DEF Return, Goto, TypeInv, TypeOK
  <2>2. client[arg[u][1]] = "dying" /\ <<arg[u][1], k>> \notin DOMAIN handlers
    BY <2>1 DEF MuxInv, Placement, Emptied, Destroying
  <2>3. <<arg[u][1], k>> \in Slots \ {arg[t]}
    BY <1>1, <2>2 DEF Slots, TypeInv, TypeOK
  <2> QED
    BY <2>2, <2>3
<1> QED
  BY <1>2, <1>3 DEF Emptied

\* The first registration of a kind, and only the first, brings the bridge.
LEMMA OnBodyAgrees ==
  ASSUME TypeInv, MuxInv, NEW t \in Threads, OnBody(t)
  PROVE  Emptied' /\ \A s \in Slots : Agree(s)'
<1> DEFINE s == arg[t]
<1>1. s \in Slots /\ client[s[1]] = "live"
  BY DEF OnBody, MuxInv, Placement, Destroying, TypeInv, TypeOK
<1>2. /\ handlers' = With(handlers, s, At(handlers, s) \cup {nextHandlerID + 1})
      /\ pc[t] = "on" /\ Return(t) /\ UNCHANGED <<client, arg>>
      /\ \/ s \in DOMAIN handlers /\ UNCHANGED <<registry, bridges>>
         \/ /\ s \notin DOMAIN handlers
            /\ registry' = [registry EXCEPT ![s] = Append(@, nBridges + 1)]
            /\ bridges' = With(bridges, s, nBridges + 1)
  BY DEF OnBody, nextID
<1> HIDE DEF s
<1>3. /\ DOMAIN handlers' = DOMAIN handlers \cup {s}
      /\ nextHandlerID + 1 \in handlers'[s]
      /\ \A x \in DOMAIN handlers \ {s} : handlers'[x] = handlers[x]
  BY <1>2 DEF With
<1>4. DOMAIN handlers = DOMAIN bridges /\ registry \in [Slots -> Seq(Bridges)]
  BY DEF TypeInv, Counted, TypeOK
<1>5. \A x \in Slots \ {s} :
        registry'[x] = registry[x] /\ (x \in DOMAIN handlers => bridges'[x] = bridges[x])
  BY <1>1, <1>2, <1>4 DEF With
<1>6. registry'[s] = <<bridges'[s]>>
  <2>1. CASE s \in DOMAIN handlers
    BY <1>1, <1>2, <2>1 DEF MuxInv, Agree
  <2>2. CASE s \notin DOMAIN handlers
    <3>1. registry[s] = <<>>
      BY <1>1, <2>2 DEF MuxInv, Agree
    <3>2. registry'[s] = Append(<<>>, nBridges + 1) /\ bridges'[s] = nBridges + 1
      BY <1>1, <1>2, <1>4, <2>2, <3>1 DEF With
    <3> QED
      BY <3>2
  <2> QED
    BY <2>1, <2>2
<1>7. Agree(s)'
  BY <1>1, <1>2, <1>3, <1>6 DEF Agree, s
<1> QED
  BY <1>1, <1>2, <1>3, <1>5, <1>7, OneSlotChanges DEF s

\* The last removal of a kind, and only the last, takes the bridge away.
LEMMA OffBodyAgrees ==
  ASSUME TypeInv, MuxInv, NEW t \in Threads, OffBody(t)
  PROVE  Emptied' /\ \A s \in Slots : Agree(s)'
<1> DEFINE s  == arg[t]
           id == target[t]
<1>1. s \in Slots /\ client[s[1]] = "live"
  BY DEF OffBody, MuxInv, Placement, Destroying, TypeInv, TypeOK
<1>2. /\ pc[t] = "off" /\ Return(t) /\ UNCHANGED <<client, arg>>
      /\ DOMAIN handlers = DOMAIN bridges /\ registry \in [Slots -> Seq(Bridges)]
  BY DEF OffBody, TypeInv, Counted, TypeOK
<1>3. CASE s \notin DOMAIN handlers /\ UNCHANGED <<handlers, bridges, registry>>
  <2>1. Agree(s)'
    BY <1>1, <1>2, <1>3 DEF MuxInv, Agree
  <2> QED
    BY <1>2, <1>3, <2>1, OneSlotChanges
<1>4. CASE /\ s \in DOMAIN handlers /\ ~(handlers[s] \subseteq {id})
           /\ handlers' = [handlers EXCEPT ![s] = @ \ {id}]
           /\ UNCHANGED <<bridges, registry>>
  <2>1. /\ DOMAIN handlers' = DOMAIN handlers /\ handlers'[s] # {}
        /\ \A x \in DOMAIN handlers \ {s} : handlers'[x] = handlers[x]
    BY <1>4
  <2>2. Agree(s)'
    BY <1>1, <1>2, <1>4, <2>1 DEF MuxInv, Agree
  <2> QED
    BY <1>2, <1>4, <2>1, <2>2, OneSlotChanges
<1>5. CASE /\ s \in DOMAIN handlers /\ handlers[s] \subseteq {id}
           /\ registry' = Unregistered(s)
           /\ handlers' = Without(handlers, {s})
           /\ bridges' = Without(bridges, {s})
  <2>1. registry[s] = <<bridges[s]>>
    BY <1>1, <1>5 DEF MuxInv, Agree
  <2>2. registry'[s] = <<>> /\ \A x \in Slots \ {s} : registry'[x] = registry[x]
    BY <1>1, <1>2, <1>5, <2>1, RemoveTheOnlyOne DEF Unregistered
  <2>3. /\ DOMAIN handlers' = DOMAIN handlers \ {s}
        /\ \A x \in DOMAIN handlers' : handlers'[x] = handlers[x] /\ bridges'[x] = bridges[x]
    BY <1>2, <1>5 DEF Without, Restrict
  <2>4. Agree(s)'
    BY <1>1, <1>2, <2>2, <2>3 DEF Agree
  <2> QED
    BY <1>2, <2>2, <2>3, <2>4, OneSlotChanges
<1> QED
  BY <1>3, <1>4, <1>5 DEF OffBody

\* The maps of a client are cleared before its vectors go.
LEMMA DestructionAgrees ==
  ASSUME TypeInv, MuxInv, NEW t \in Threads,
         (\E a \in Addrs : Destroy(t, a)) \/ Clear(t) \/ Free(t)
  PROVE  Emptied' /\ \A s \in Slots : Agree(s)'
<1> USE DEF goVars, cVars
<1>1. CASE \E a \in Addrs : Destroy(t, a)
  <2>1. PICK a \in Addrs : Destroy(t, a)
    BY <1>1
  <2>2. /\ client' = [client EXCEPT ![a] = "dying"]
        /\ UNCHANGED <<registry, handlers, bridges>>
        /\ \A u \in Threads : pc'[u] # "free"
    BY <2>1 DEF Destroy, Destroying, Goto, MuxInv, Placement, TypeInv, TypeOK
  <2>3. \A s \in Slots : client'[s[1]] \in {client[s[1]], "dying"}
    BY <2>2, SlotParts DEF TypeInv, TypeOK
  <2> QED
    BY <2>2, <2>3 DEF MuxInv, Agree, Emptied
<1>2. CASE Clear(t)
  <2> DEFINE slots == {arg[t][1]} \X Kinds
  <2>1. /\ handlers' = Without(handlers, slots)
        /\ bridges' = Without(bridges, slots)
        /\ UNCHANGED <<client, registry, arg>>
    BY <1>2 DEF Clear
  <2>2. /\ DOMAIN handlers' = DOMAIN handlers \ slots
        /\ \A x \in DOMAIN handlers' : handlers'[x] = handlers[x]
    BY <2>1 DEF Without, Restrict
  <2>3. \A x \in DOMAIN bridges \ slots : bridges'[x] = bridges[x]
    BY <2>1 DEF Without, Restrict
  <2>4. client[arg[t][1]] = "dying"
    BY <1>2 DEF Clear, MuxInv, Placement, Destroying
  <2>5. \A s \in Slots : client[s[1]] # "dying" => s \notin slots
    BY <2>4
  <2>6. \A u \in Threads : pc'[u] = "free" => u = t
    BY <1>2 DEF Clear, Goto, MuxInv, Placement, Destroying, TypeInv, TypeOK
  <2>7. \A k \in Kinds : <<arg[t][1], k>> \in slots
    OBVIOUS
  <2> HIDE DEF slots
  <2>8. \A s \in Slots : Agree(s)'
    BY <2>1, <2>2, <2>3, <2>5 DEF MuxInv, Agree, TypeInv, Counted
  <2> QED
    BY <2>1, <2>2, <2>6, <2>7, <2>8 DEF Emptied
<1>3. CASE Free(t)
  <2> DEFINE a == arg[t][1]
  <2>1. /\ client' = [client EXCEPT ![a] = "none"]
        /\ registry' = [s \in Slots |-> IF s[1] = a THEN <<>> ELSE registry[s]]
        /\ UNCHANGED <<handlers, bridges>>
        /\ pc[t] = "free" /\ pc' = [pc EXCEPT ![t] = "idle"]
    BY <1>3 DEF Free, Goto
  <2>2. \A u \in Threads : pc'[u] # "free"
    BY <2>1 DEF MuxInv, Placement, Destroying, TypeInv, TypeOK
  <2>3. \A s \in Slots : s[1] = a => s \notin DOMAIN handlers
    BY <2>1, SlotParts DEF MuxInv, Emptied
  <2>4. \A s \in Slots : client'[s[1]] = IF s[1] = a THEN "none" ELSE client[s[1]]
    BY <2>1, SlotParts DEF TypeInv, TypeOK
  <2> HIDE DEF a
  <2> QED
    BY <2>1, <2>2, <2>3, <2>4 DEF MuxInv, Agree, Emptied
<1> QED
  BY <1>1, <1>2, <1>3

\* A new client starts with nothing in the maps and the vectors.
LEMMA CreateAgrees ==
  ASSUME TypeInv, MuxInv, NEW a \in Addrs, Create(a)
  PROVE  Emptied' /\ \A s \in Slots : Agree(s)'
<1>1. /\ client' = [client EXCEPT ![a] = "live"] /\ client[a] = "none"
      /\ UNCHANGED <<registry, handlers, bridges, pc, arg>>
  BY DEF Create, goVars
<1>2. \A s \in Slots : client'[s[1]] = IF s[1] = a THEN "live" ELSE client[s[1]]
  BY <1>1, SlotParts DEF TypeInv, TypeOK
<1> QED
  BY <1>1, <1>2 DEF MuxInv, Agree, Emptied

\* The invariant holds at first.
LEMMA MuxInvInit == Init => MuxInv
BY SlotParts DEF Init, MuxInv, Placement, Destroying, Emptied, Agree

\* Every step keeps the invariant.
LEMMA MuxInvStep == KeepsUsing /\ TypeInv /\ MuxInv /\ [Next]_vars => MuxInv'
<1> SUFFICES ASSUME KeepsUsing, TypeInv, MuxInv, [Next]_vars PROVE MuxInv'
  OBVIOUS
<1> DEFINE Goal == Emptied' /\ \A s \in Slots : Agree(s)'
<1>1. Placement'
  BY PlacementStep DEF MuxInv
<1>2. ASSUME NEW t \in Threads, NEW s \in Slots, On(t, s) \/ Dispatch(t, s) PROVE Goal
  <2>1. /\ UNCHANGED <<client, registry, handlers, bridges>>
        /\ arg' = [arg EXCEPT ![t] = s] /\ pc[t] # "free"
        /\ \A u \in Threads : pc'[u] = "free" => pc[u] = "free"
    BY <1>2 DEF On, Dispatch, MayCall, Goto, goVars, cVars, TypeInv, TypeOK
  <2> QED
    BY <2>1, AgreeKept
<1>3. ASSUME NEW t \in Threads, NEW a \in Addrs, NEW id \in Ids, Off(t, a, id) PROVE Goal
  <2>1. /\ UNCHANGED <<client, registry, handlers, bridges>>
        /\ arg' = [arg EXCEPT ![t] = <<a, handle[id][2]>>] /\ pc[t] # "free"
        /\ \A u \in Threads : pc'[u] = "free" => pc[u] = "free"
    BY <1>3 DEF Off, MayCall, Goto, goVars, cVars, TypeInv, TypeOK
  <2> QED
    BY <2>1, AgreeKept
<1>4. ASSUME NEW t \in Threads,
             \/ Locks(t) \/ OffCheck(t) \/ Iterate(t) \/ DispatchEnds(t) \/ CallBridge(t)
             \/ Snapshot(t) \/ CallHandler(t) \/ HandlerReturns(t) \/ BridgeReturns(t)
      PROVE  Goal
  <2>1. /\ UNCHANGED <<client, registry, handlers, bridges, arg>>
        /\ \E l \in Pcs \ {"free"} : Goto(t, l)
    BY <1>4 DEF Locks, OnLock, OffLock, ClearLock, SnapLock, Lock, OffCheck, Return, Iterate,
                DispatchEnds, CallBridge, Snapshot, CallHandler, HandlerReturns, BridgeReturns,
                goVars, cVars, TypeInv, TypeOK, Pcs
  <2> QED
    BY <2>1, AgreeKept DEF Goto, TypeInv, TypeOK
<1>5. ASSUME NEW t \in Threads, OnBody(t) PROVE Goal
  BY <1>5, OnBodyAgrees
<1>6. ASSUME NEW t \in Threads, OffBody(t) PROVE Goal
  BY <1>6, OffBodyAgrees
<1>7. ASSUME NEW t \in Threads, (\E a \in Addrs : Destroy(t, a)) \/ Clear(t) \/ Free(t)
      PROVE  Goal
  BY <1>7, DestructionAgrees
<1>8. ASSUME NEW a \in Addrs, Create(a) PROVE Goal
  BY <1>8, CreateAgrees
<1>9. ASSUME UNCHANGED vars PROVE Goal
  BY <1>9 DEF vars, goVars, cVars, MuxInv, Agree, Emptied
<1> HIDE DEF Goal
<1>10. ASSUME NEW t \in Threads, Calls(t) PROVE Goal
  BY <1>2, <1>3, <1>7, <1>10 DEF Calls
<1>11. ASSUME NEW t \in Threads, Runs(t) PROVE Goal
  BY <1>4, <1>5, <1>6, <1>7, <1>11 DEF Runs
<1>12. Goal
  BY <1>4, <1>8, <1>9, <1>10, <1>11 DEF Next
<1> QED
  BY <1>1, <1>12 DEF MuxInv, Goal

\* The inductive invariant behind the theorems below.
THEOREM MuxInvCorrect == ASSUME KeepsUsing PROVE Spec => [](TypeInv /\ MuxInv)
<1>1. Init => IterStarted
  BY DEF Init, IterStarted
<1>2. TypeInv => TypeOK
  BY DEF TypeInv
<1>3. TypeInv /\ MuxInv /\ [Next]_vars => MuxInv'
  BY MuxInvStep
<1> QED
  BY <1>1, <1>2, <1>3, TypeInit, TypeStep, IterStep, MuxInvInit, PTL DEF Spec

\* The maps of Go and the vectors of C agree: a live client has a bridge for a
\* kind exactly when Go has handlers of it, and it is the one Go will unregister.
THEOREM LayersAgree == ASSUME KeepsUsing PROVE Spec => []BridgeIffHandlers
<1>1. TypeInv /\ MuxInv => BridgeIffHandlers
  BY DEF TypeInv, Counted, MuxInv, Agree, BridgeIffHandlers
<1> QED
  BY <1>1, MuxInvCorrect, PTL

\* An address whose client was destroyed carries nothing over to the next one.
THEOREM AddressesAreClean == ASSUME KeepsUsing PROVE Spec => []NothingLeftBehind
<1>1. TypeInv /\ MuxInv => NothingLeftBehind
  BY DEF TypeInv, Counted, MuxInv, Agree, NothingLeftBehind
<1> QED
  BY <1>1, MuxInvCorrect, PTL

----------------------------------------------------------------------------
(* The course of a dispatch *)

\* Where the dispatch of a thread is.  It is calling handlers also while one of
\* them is in a call of its own.
Stage(t) ==
  IF back[t] = "handler" \/ pc[t] \in {"handlers", "handler"} THEN "calling"
  ELSE IF pc[t] \in {"bridge", "snapLock", "snap"} THEN "bridge"
  ELSE IF pc[t] = "iter" THEN "iter" ELSE "none"

\* The handlers of the kind that a thread dispatches.
Here(t) == At(handlers, arg[t])

\* Registered when the dispatch began, or since.
Known(t, id) == id \in atStart[t] \/ id > idAtStart[t]

Course(t) ==
  /\ Stage(t) # "none" => \A id \in Here(t) : Known(t, id)
  /\ Stage(t) = "iter" =>
       \/ it[t] = 1 /\ called[t] = <<>> /\ end[t] \in {0, 1} /\ (end[t] = 0 => atStart[t] = {})
       \/ it[t] = 2 /\ end[t] = 1 /\ atStart[t] \cap Here(t) \subseteq Range(called[t])
  /\ Stage(t) = "bridge" => it[t] = 1 /\ end[t] = 1 /\ called[t] = <<>>
  /\ Stage(t) = "calling" =>
       /\ it[t] = 1 /\ end[t] = 1
       /\ todo[t] \cap Range(called[t]) = {}
       /\ \A id \in todo[t] : Known(t, id)
       /\ atStart[t] \cap Here(t) \subseteq todo[t] \cup Range(called[t])

Once(t) ==
  /\ back[t] = "handler" => pc[t] \in {"onLock", "on", "offCheck", "offLock", "off"}
  /\ atStart[t] \subseteq 1 .. idAtStart[t] /\ idAtStart[t] <= nextHandlerID
  /\ \A i, j \in DOMAIN called[t] : called[t][i] = called[t][j] => i = j
  /\ \A i \in DOMAIN called[t] : Known(t, called[t][i])
  /\ Course(t)

\* Handlers come with new ids.
Evolves ==
  /\ nextHandlerID' \in Nat /\ nextHandlerID <= nextHandlerID'
  /\ \A s \in Slots : \A id \in At(handlers', s) :
       id \in At(handlers, s) \/ (id \in Nat /\ id > nextHandlerID)

\* A handler that a slot has after a step was there before it or has a new id.
LEMMA HandlersEvolve == TypeInv /\ [Next]_vars => Evolves
<1> SUFFICES ASSUME TypeInv, [Next]_vars PROVE Evolves
  OBVIOUS
<1> USE DEF goVars, cVars, iterVars
<1>1. nextHandlerID \in Nat /\ (\A s \in DOMAIN handlers : handlers[s] \subseteq Nat)
  BY BoundsAreNat DEF TypeInv, TypeOK, Ids
<1>2. ASSUME NEW t \in Threads, OnBody(t) PROVE Evolves
  <2>1. /\ nextHandlerID' = nextHandlerID + 1
        /\ handlers' = With(handlers, arg[t], At(handlers, arg[t]) \cup {nextHandlerID + 1})
    BY <1>2 DEF OnBody, nextID
  <2>2. \A s \in Slots : \A id \in At(handlers', s) : id \in At(handlers, s) \/ id = nextHandlerID + 1
    BY <2>1 DEF With, At
  <2>3. nextHandlerID + 1 \in Nat /\ nextHandlerID + 1 > nextHandlerID
    BY <1>1
  <2>4. nextHandlerID' \in Nat /\ nextHandlerID <= nextHandlerID'
    BY <1>1, <2>1
  <2> QED
    BY <2>2, <2>3, <2>4 DEF Evolves
<1>3. ASSUME NEW t \in Threads, OffBody(t) \/ Clear(t) PROVE Evolves
  <2>1. nextHandlerID' = nextHandlerID
    BY <1>3 DEF OffBody, Clear
  <2>2. \/ handlers' = handlers
        \/ handlers' = [handlers EXCEPT ![arg[t]] = @ \ {target[t]}]
        \/ \E S : handlers' = Without(handlers, S)
    BY <1>3 DEF OffBody, Clear
  <2>3. \A s \in Slots : \A id \in At(handlers', s) : id \in At(handlers, s)
    BY <2>2 DEF Without, Restrict, At
  <2> QED
    BY <1>1, <2>1, <2>3 DEF Evolves
<1>4. ASSUME UNCHANGED <<nextHandlerID, handlers>> PROVE Evolves
  BY <1>1, <1>4 DEF Evolves
<1>5. ASSUME NEW t \in Threads, Calls(t) \/ Locks(t) \/ HandlerReturns(t)
      PROVE  UNCHANGED <<nextHandlerID, handlers>>
  BY <1>5 DEF Calls, On, Dispatch, Destroy, Off, Locks, OnLock, OffLock, ClearLock, SnapLock, Lock,
              HandlerReturns
<1>6. ASSUME NEW t \in Threads,
             \/ OffCheck(t) \/ Free(t) \/ Iterate(t) \/ DispatchEnds(t) \/ CallBridge(t)
             \/ Snapshot(t) \/ CallHandler(t) \/ BridgeReturns(t)
      PROVE  UNCHANGED <<nextHandlerID, handlers>>
  BY <1>6 DEF OffCheck, Free, Iterate, DispatchEnds, CallBridge, Snapshot, CallHandler, BridgeReturns
<1>7. ASSUME NEW a \in Addrs, Create(a) PROVE UNCHANGED <<nextHandlerID, handlers>>
  BY <1>7 DEF Create
<1>8. ASSUME UNCHANGED vars PROVE UNCHANGED <<nextHandlerID, handlers>>
  BY <1>8 DEF vars
<1> QED
  BY <1>2, <1>3, <1>4, <1>5, <1>6, <1>7, <1>8 DEF Next, Runs

\* A dispatch is not disturbed by what others do, nor by the calls its handlers
\* make: ids that are new are not in atStart.
LEMMA OnceKept ==
  ASSUME TypeInv, Evolves, NEW u \in Threads, Once(u),
         back'[u] = "handler" => pc'[u] \in {"onLock", "on", "offCheck", "offLock", "off"},
         /\ atStart'[u] = atStart[u] /\ idAtStart'[u] = idAtStart[u] /\ called'[u] = called[u]
         /\ it'[u] = it[u] /\ end'[u] = end[u] /\ todo'[u] = todo[u],
         Stage(u)' = "none" \/ (Stage(u)' = Stage(u) /\ arg'[u] = arg[u])
  PROVE  Once(u)'
<1>1. /\ arg[u] \in Slots /\ idAtStart[u] \in Nat /\ nextHandlerID \in Nat
      /\ Here(u) \subseteq Nat /\ atStart[u] \subseteq Nat
  BY BoundsAreNat DEF TypeInv, TypeOK, Here, At, Ids
<1>2. /\ idAtStart'[u] <= nextHandlerID'
      /\ \A id : Known(u, id)' <=> Known(u, id)
  BY <1>1 DEF Once, Evolves, Known
<1>3. ASSUME Stage(u)' # "none" PROVE Course(u)'
  <2>1. \A id \in Here(u)' : id \in Here(u) \/ (id \in Nat /\ id > nextHandlerID)
    BY <1>1, <1>3 DEF Evolves, Here
  <2>2. \A id \in Nat : id > nextHandlerID => id \notin atStart[u] /\ Known(u, id)
    BY <1>1 DEF Once, Known
  <2>3. Here(u)' \subseteq Nat
    BY <1>1, <2>1
  <2>4. \A id \in Here(u)' : Stage(u) # "none" => Known(u, id)'
    BY <1>2, <2>1, <2>2, <2>3 DEF Once, Course
  <2>5. atStart[u] \cap Here(u)' \subseteq atStart[u] \cap Here(u)
    BY <2>1, <2>2, <2>3
  <2> QED
    BY <1>2, <1>3, <2>4, <2>5 DEF Once, Course
<1>4. Course(u)'
  BY <1>3 DEF Course
<1> QED
  BY <1>2, <1>4 DEF Once

\* No dispatch is under way at first.
LEMMA OnceInit == Init => \A t \in Threads : Once(t)
<1> SUFFICES ASSUME Init, NEW t \in Threads PROVE Once(t)
  OBVIOUS
<1>1. /\ back[t] = "idle" /\ pc[t] = "idle" /\ atStart[t] = {} /\ idAtStart[t] = 0
      /\ nextHandlerID = 0 /\ called[t] = <<>>
  BY DEF Init
<1> QED
  BY <1>1 DEF Once, Course, Stage

\* The steps of a dispatch, seen from the thread that takes them.

\* At its start a dispatch has called nobody, and has a bridge to call unless there
\* is no handler.
LEMMA DispatchOnce ==
  ASSUME TypeInv, MuxInv, NEW t \in Threads, Once(t), NEW s \in Slots, Dispatch(t, s)
  PROVE  Once(t)'
<1>1. /\ pc[t] = "idle" /\ client[s[1]] = "live" /\ back' = back
      /\ pc'[t] = "iter" /\ arg'[t] = s /\ it'[t] = 1 /\ end'[t] = Len(registry[s])
      /\ atStart'[t] = At(handlers, s) /\ idAtStart'[t] = nextHandlerID /\ called'[t] = <<>>
      /\ nextHandlerID' = nextHandlerID /\ handlers' = handlers
  BY DEF Dispatch, MayCall, Goto, goVars, TypeInv, TypeOK
<1>2. back'[t] # "handler" /\ Stage(t)' = "iter"
  BY <1>1 DEF Once, Stage
<1>3. At(handlers, s) \subseteq 1 .. nextHandlerID /\ nextHandlerID \in Nat
  BY BoundsAreNat DEF TypeInv, TypeOK, Counted, At
<1>4. end'[t] \in {0, 1} /\ (end'[t] = 0 => atStart'[t] = {})
  <2>1. CASE s \in DOMAIN handlers
    <3>1. registry[s] = <<bridges[s]>>
      BY <1>1, <2>1 DEF MuxInv, Agree
    <3>2. end'[t] = 1
      BY <1>1, <3>1
    <3> QED
      BY <3>2
  <2>2. CASE s \notin DOMAIN handlers
    <3>1. registry[s] = <<>> /\ At(handlers, s) = {}
      BY <1>1, <2>2 DEF MuxInv, Agree, At
    <3>2. end'[t] = 0 /\ atStart'[t] = {}
      BY <1>1, <3>1
    <3> QED
      BY <3>2
  <2> QED
    BY <2>1, <2>2
<1>5. \A id \in Here(t)' : Known(t, id)'
  BY <1>1 DEF Here, Known
<1> QED
  BY <1>1, <1>2, <1>3, <1>4, <1>5 DEF Once, Course

\* The loop takes the one bridge.
LEMMA IterateOnce ==
  ASSUME TypeInv, NEW t \in Threads, Once(t), Iterate(t)
  PROVE  Once(t)'
<1>1. /\ pc[t] = "iter" /\ it[t] <= end[t] /\ pc'[t] = "bridge"
      /\ UNCHANGED <<goVars, back, arg, it, end, todo, atStart, idAtStart, called>>
  BY DEF Iterate, Goto, TypeInv, TypeOK
<1>2. back[t] # "handler" /\ Stage(t) = "iter" /\ Stage(t)' = "bridge"
  BY <1>1 DEF Once, Stage
<1>3. it[t] = 1 /\ end[t] = 1 /\ called[t] = <<>>
  BY <1>1, <1>2 DEF Once, Course
<1> QED
  BY <1>1, <1>2, <1>3 DEF Once, Course, Known, Here, goVars

\* The dispatch is over and its history forgotten.
LEMMA DispatchEndsOnce ==
  ASSUME TypeInv, NEW t \in Threads, Once(t), DispatchEnds(t)
  PROVE  Once(t)'
<1>1. /\ pc[t] = "iter" /\ pc'[t] = "idle" /\ back' = back /\ nextHandlerID' = nextHandlerID
      /\ atStart'[t] = {} /\ idAtStart'[t] = 0 /\ called'[t] = <<>> /\ nextHandlerID \in Nat
  BY BoundsAreNat DEF DispatchEnds, Goto, goVars, TypeInv, TypeOK
<1>2. back'[t] # "handler" /\ Stage(t)' = "none"
  BY <1>1 DEF Once, Stage
<1> QED
  BY <1>1, <1>2 DEF Once, Course

\* The handlers to call are those registered at the snapshot.
LEMMA SnapshotOnce ==
  ASSUME TypeInv, NEW t \in Threads, Once(t), Snapshot(t)
  PROVE  Once(t)'
<1>1. /\ pc[t] = "snap" /\ pc'[t] = "handlers" /\ todo'[t] = Here(t)
      /\ UNCHANGED <<nextHandlerID, handlers, back, arg, it, end, atStart, idAtStart, called>>
  BY DEF Snapshot, Goto, Here, TypeInv, TypeOK
<1>2. back[t] # "handler" /\ Stage(t) = "bridge" /\ Stage(t)' = "calling"
  BY <1>1 DEF Once, Stage
<1>3. it[t] = 1 /\ end[t] = 1 /\ called[t] = <<>> /\ \A id \in Here(t) : Known(t, id)
  BY <1>2 DEF Once, Course
<1>4. Range(called[t]) = {}
  BY <1>3 DEF Range
<1>5. Here(t)' = Here(t) /\ \A id : Known(t, id)' <=> Known(t, id)
  BY <1>1 DEF Here, Known
<1> QED
  BY <1>1, <1>2, <1>3, <1>4, <1>5 DEF Once, Course

\* A handler that is called leaves the snapshot for the history.
LEMMA CallHandlerOnce ==
  ASSUME TypeInv, NEW t \in Threads, Once(t), CallHandler(t)
  PROVE  Once(t)'
<1>1. PICK id \in todo[t] :
        /\ todo' = [todo EXCEPT ![t] = @ \ {id}]
        /\ called' = [called EXCEPT ![t] = Append(@, id)]
  BY DEF CallHandler
<1>2. /\ todo'[t] = todo[t] \ {id} /\ called'[t] = Append(called[t], id)
      /\ called[t] \in Seq(Ids) /\ id \in Ids
      /\ pc[t] = "handlers" /\ pc'[t] = "handler"
      /\ UNCHANGED <<nextHandlerID, handlers, back, arg, it, end, atStart, idAtStart>>
  BY <1>1 DEF CallHandler, Goto, goVars, TypeInv, TypeOK
<1>3. back[t] # "handler" /\ Stage(t) = "calling" /\ Stage(t)' = "calling"
  BY <1>2 DEF Once, Stage
<1>4. id \notin Range(called[t]) /\ Known(t, id)
  BY <1>3 DEF Once, Course
<1>5. /\ Range(called'[t]) = Range(called[t]) \cup {id}
      /\ \A i, j \in DOMAIN called'[t] : called'[t][i] = called'[t][j] => i = j
  <2>1. \A i, j \in DOMAIN called[t] : called[t][i] = called[t][j] => i = j
    BY DEF Once
  <2> QED
    BY <1>2, <1>4, <2>1, AppendRange
<1>6. Here(t)' = Here(t) /\ \A x : Known(t, x)' <=> Known(t, x)
  BY <1>2 DEF Here, Known
<1>7. (\A i \in DOMAIN called[t] : Known(t, called[t][i]))'
  <2>1. \A x \in Range(called[t]) : Known(t, x)
    BY DEF Once, Range
  <2>2. \A x \in Range(called'[t]) : Known(t, x)
    BY <1>4, <1>5, <2>1
  <2>3. \A i \in DOMAIN called'[t] : Known(t, called'[t][i])
    BY <2>2 DEF Range
  <2> QED
    BY <1>6, <2>3
<1>8. Course(t)'
  BY <1>2, <1>3, <1>5, <1>6 DEF Once, Course
<1> QED
  BY <1>2, <1>3, <1>5, <1>7, <1>8 DEF Once

\* When the snapshot is empty, who was registered throughout has been called.
LEMMA BridgeReturnsOnce ==
  ASSUME TypeInv, NEW t \in Threads, Once(t), BridgeReturns(t)
  PROVE  Once(t)'
<1>1. /\ pc[t] = "handlers" /\ todo[t] = {} /\ pc'[t] = "iter" /\ it'[t] = it[t] + 1
      /\ UNCHANGED <<nextHandlerID, handlers, back, arg, end, atStart, idAtStart, called>>
  BY DEF BridgeReturns, Goto, goVars, TypeInv, TypeOK
<1>2. back[t] # "handler" /\ Stage(t) = "calling" /\ Stage(t)' = "iter"
  BY <1>1 DEF Once, Stage
<1>3. it'[t] = 2 /\ end'[t] = 1 /\ atStart[t] \cap Here(t) \subseteq Range(called[t])
  BY <1>1, <1>2 DEF Once, Course
<1>4. Here(t)' = Here(t) /\ \A x : Known(t, x)' <=> Known(t, x)
  BY <1>1 DEF Here, Known
<1> QED
  BY <1>1, <1>2, <1>3, <1>4 DEF Once, Course

\* The steps of a thread that are none of the above.
LEMMA OtherStepsOnce ==
  ASSUME TypeInv, Evolves, NEW t \in Threads, Once(t),
         \/ \E s \in Slots : On(t, s)
         \/ \E a \in Addrs : Destroy(t, a) \/ \E id \in Ids : Off(t, a, id)
         \/ Locks(t) \/ OnBody(t) \/ OffCheck(t) \/ OffBody(t) \/ Clear(t) \/ Free(t)
         \/ CallBridge(t) \/ HandlerReturns(t)
  PROVE  Once(t)'
<1> USE DEF goVars, cVars, iterVars
<1> DEFINE Kept == UNCHANGED <<it, end, todo, atStart, idAtStart, called>>
           Nested == back'[t] = "handler" =>
                       pc'[t] \in {"onLock", "on", "offCheck", "offLock", "off"}
           Staged == Stage(t)' = "none" \/ (Stage(t)' = Stage(t) /\ arg'[t] = arg[t])
<1>1. ASSUME NEW s \in Slots, On(t, s) PROVE Kept /\ Nested /\ Staged
  BY <1>1 DEF On, MayCall, Goto, Stage, TypeInv, TypeOK
<1>2. ASSUME NEW a \in Addrs, NEW id \in Ids, Off(t, a, id) PROVE Kept /\ Nested /\ Staged
  BY <1>2 DEF Off, MayCall, Goto, Stage, TypeInv, TypeOK
<1>3. ASSUME NEW a \in Addrs, Destroy(t, a) PROVE Kept /\ Nested /\ Staged
  BY <1>3 DEF Destroy, Goto, Stage, Once, TypeInv, TypeOK
<1>4. ASSUME Locks(t) PROVE Kept /\ Nested /\ Staged
  BY <1>4 DEF Locks, OnLock, OffLock, ClearLock, SnapLock, Lock, Goto, Stage, Once, TypeInv, TypeOK
<1>5. ASSUME OnBody(t) \/ OffCheck(t) \/ OffBody(t) PROVE Kept /\ Nested /\ Staged
  <2>1. Kept /\ UNCHANGED arg /\ pc[t] \in {"on", "offCheck", "off"}
    BY <1>5 DEF OnBody, OffCheck, OffBody
  <2>2. \/ Goto(t, "offLock") /\ UNCHANGED back
        \/ Return(t)
    BY <1>5 DEF OnBody, OffCheck, OffBody
  <2>3. \/ pc'[t] = "offLock" /\ back'[t] = back[t]
        \/ pc'[t] = back[t] /\ back'[t] = "idle"
    BY <2>2 DEF Return, Goto, TypeInv, TypeOK
  <2>4. back[t] \in {"idle", "handler"}
    BY DEF TypeInv, TypeOK
  <2> QED
    BY <2>1, <2>3, <2>4 DEF Stage
<1>6. ASSUME Clear(t) \/ Free(t) \/ CallBridge(t) \/ HandlerReturns(t)
      PROVE  Kept /\ Nested /\ Staged
  BY <1>6 DEF Clear, Free, CallBridge, HandlerReturns, Goto, Stage, Once, TypeInv, TypeOK
<1> HIDE DEF Nested, Staged, Kept
<1>7. Kept /\ Nested /\ Staged
  BY <1>1, <1>2, <1>3, <1>4, <1>5, <1>6
<1> QED
  BY <1>7, OnceKept DEF Nested, Staged, Kept

\* What a thread does changes nothing that belongs to another.
Acts(t) == Calls(t) \/ Locks(t) \/ Runs(t) \/ HandlerReturns(t)

Alike(u) ==
  /\ pc'[u] = pc[u] /\ back'[u] = back[u] /\ arg'[u] = arg[u] /\ target'[u] = target[u]
  /\ it'[u] = it[u] /\ end'[u] = end[u] /\ current'[u] = current[u] /\ todo'[u] = todo[u]
  /\ atStart'[u] = atStart[u] /\ idAtStart'[u] = idAtStart[u] /\ called'[u] = called[u]

\* No step of a thread is seen in the variables of another.
LEMMA OthersUntouched ==
  ASSUME TypeInv, NEW t \in Threads, NEW u \in Threads, u # t, Acts(t)
  PROVE  Alike(u)
<1> USE DEF goVars, cVars, iterVars, Alike, Goto
<1>1. CASE Calls(t)
  <2>1. ASSUME NEW s \in Slots, On(t, s) \/ Dispatch(t, s) PROVE Alike(u)
    BY <2>1 DEF On, Dispatch, TypeInv, TypeOK
  <2>2. ASSUME NEW a \in Addrs, Destroy(t, a) PROVE Alike(u)
    BY <2>2 DEF Destroy, TypeInv, TypeOK
  <2>3. ASSUME NEW a \in Addrs, NEW id \in Ids, Off(t, a, id) PROVE Alike(u)
    BY <2>3 DEF Off, TypeInv, TypeOK
  <2> HIDE DEF Alike
  <2> QED
    BY <1>1, <2>1, <2>2, <2>3 DEF Calls
<1>2. CASE Locks(t) \/ HandlerReturns(t)
  BY <1>2 DEF Locks, OnLock, OffLock, ClearLock, SnapLock, Lock, HandlerReturns, TypeInv, TypeOK
<1>3. CASE OnBody(t) \/ OffCheck(t) \/ OffBody(t)
  BY <1>3 DEF OnBody, OffCheck, OffBody, Return, TypeInv, TypeOK
<1>4. CASE Clear(t) \/ Free(t) \/ Iterate(t) \/ DispatchEnds(t) \/ CallBridge(t) \/ Snapshot(t)
           \/ CallHandler(t) \/ BridgeReturns(t)
  BY <1>4 DEF Clear, Free, Iterate, DispatchEnds, CallBridge, Snapshot, CallHandler, BridgeReturns,
              TypeInv, TypeOK
<1> QED
  BY <1>1, <1>2, <1>3, <1>4 DEF Acts, Runs

\* Every step keeps the course of every dispatch.
LEMMA OnceStep ==
  ASSUME TypeInv, MuxInv, \A t \in Threads : Once(t), [Next]_vars
  PROVE  (\A t \in Threads : Once(t))'
<1>1. Evolves
  BY HandlersEvolve
<1>2. ASSUME NEW u \in Threads, Alike(u) PROVE Once(u)'
  BY <1>1, <1>2, OnceKept DEF Alike, Stage, Once
<1>3. ASSUME NEW t \in Threads, Acts(t) PROVE Once(t)'
  BY <1>1, <1>3, DispatchOnce, IterateOnce, DispatchEndsOnce, SnapshotOnce, CallHandlerOnce,
     BridgeReturnsOnce, OtherStepsOnce DEF Acts, Calls, Runs
<1>4. ASSUME NEW t \in Threads, Acts(t) PROVE (\A u \in Threads : Once(u))'
  BY <1>2, <1>3, <1>4, OthersUntouched
<1>5. ASSUME (\E a \in Addrs : Create(a)) \/ UNCHANGED vars
      PROVE  (\A u \in Threads : Once(u))'
  BY <1>2, <1>5 DEF Create, vars, iterVars, Alike
<1> QED
  BY <1>4, <1>5 DEF Next, Acts

\* A message goes once to every handler that is registered for as long as its
\* dispatch lasts, to none twice and to none that was removed before it: what
\* one pass of the C vector and one bridge amount to for the handlers of Go.
THEOREM EachOnce == ASSUME KeepsUsing PROVE Spec => []EachHandlerOnce
<1> DEFINE AllOnce == \A t \in Threads : Once(t)
<1>1. TypeInv /\ MuxInv /\ AllOnce /\ [Next]_vars => AllOnce'
  BY OnceStep
<1>2. AllOnce => EachHandlerOnce
  <2> SUFFICES ASSUME AllOnce, NEW t \in Threads, pc[t] = "iter", it[t] > end[t]
               PROVE  atStart[t] \cap At(handlers, arg[t]) \subseteq Range(called[t])
    BY DEF EachHandlerOnce, Once, Known
  <2>1. Stage(t) = "iter"
    BY DEF Once, Stage
  <2>2. CASE it[t] = 2
    BY <2>1, <2>2 DEF Once, Course, Here
  <2>3. CASE it[t] = 1
    <3>1. end[t] = 0 /\ atStart[t] = {}
      BY <2>1, <2>3 DEF Once, Course
    <3> QED
      BY <3>1
  <2> QED
    BY <2>1, <2>2, <2>3 DEF Once, Course
<1>3. Init => AllOnce
  BY OnceInit
<1> QED
  BY <1>1, <1>2, <1>3, MuxInvCorrect, PTL DEF Spec

----------------------------------------------------------------------------
(* One thread and the finalizer *)

\* The vector holds the bridge that a dispatch is about to call, and for as long
\* as the first is to come the vector is as long as it was.
Tracked(t) ==
  /\ pc[t] = "iter" /\ it[t] = 1 => end[t] = Len(registry[arg[t]])
  /\ pc[t] = "bridge" => \E i \in DOMAIN registry[arg[t]] : registry[arg[t]][i] = current[t]

\* Nobody takes the bridge from under the loop: a handler may remove it, but the
\* loop does not come back to it.
LEMMA TrackedStep ==
  ASSUME NEW t \in Threads, TypeInv, MuxInv, Once(t), Tracked(t),
         Acts(t) \/ (\E a \in Addrs : Create(a)) \/ UNCHANGED vars
  PROVE  Tracked(t)'
<1> USE DEF goVars, cVars, iterVars, Goto
<1>0. registry \in [Slots -> Seq(Bridges)] /\ arg[t] \in Slots
  BY DEF TypeInv, TypeOK
<1>1. ASSUME NEW s \in Slots, Dispatch(t, s) PROVE Tracked(t)'
  BY <1>1 DEF Dispatch, Tracked, TypeInv, TypeOK
<1>2. ASSUME Iterate(t) PROVE Tracked(t)'
  <2>1. /\ pc[t] = "iter" /\ it[t] <= end[t] /\ pc'[t] = "bridge"
        /\ current'[t] = IF it[t] <= Len(registry[arg[t]]) THEN registry[arg[t]][it[t]] ELSE 0
        /\ UNCHANGED <<registry, arg>>
    BY <1>2 DEF Iterate, TypeInv, TypeOK
  <2>2. it[t] = 1 /\ end[t] = 1
    BY <2>1 DEF Once, Course, Stage
  <2>3. Len(registry[arg[t]]) = 1
    BY <2>1, <2>2 DEF Tracked
  <2>4. current'[t] = registry[arg[t]][1] /\ 1 \in DOMAIN registry[arg[t]]
    BY <1>0, <2>1, <2>2, <2>3
  <2> QED
    BY <2>1, <2>4 DEF Tracked
<1>3. ASSUME BridgeReturns(t) PROVE Tracked(t)'
  <2>1. pc[t] = "handlers" /\ pc'[t] = "iter" /\ it'[t] = it[t] + 1
    BY <1>3 DEF BridgeReturns, TypeInv, TypeOK
  <2>2. it[t] = 1
    BY <2>1 DEF Once, Course, Stage
  <2> QED
    BY <2>1, <2>2 DEF Tracked
<1>4. ASSUME \/ Locks(t) \/ Clear(t) \/ Free(t) \/ DispatchEnds(t) \/ CallBridge(t)
             \/ Snapshot(t) \/ CallHandler(t) \/ HandlerReturns(t)
      PROVE  pc'[t] \notin {"iter", "bridge"}
  BY <1>4 DEF Locks, OnLock, OffLock, ClearLock, SnapLock, Lock, Clear, Free,
              DispatchEnds, CallBridge, Snapshot, CallHandler, HandlerReturns, TypeInv, TypeOK
<1>5. ASSUME \/ \E s \in Slots : On(t, s)
             \/ \E a \in Addrs : Destroy(t, a) \/ \E id \in Ids : Off(t, a, id)
      PROVE  pc'[t] \notin {"iter", "bridge"}
  BY <1>5 DEF On, Off, Destroy, TypeInv, TypeOK
<1>6. ASSUME OnBody(t) \/ OffCheck(t) \/ OffBody(t) PROVE pc'[t] \notin {"iter", "bridge"}
  BY <1>6 DEF OnBody, OffCheck, OffBody, Return, TypeInv, TypeOK
<1>7. ASSUME (\E a \in Addrs : Create(a)) \/ UNCHANGED vars PROVE Tracked(t)'
  BY <1>7 DEF Create, vars, Tracked
<1>8. ASSUME pc'[t] \notin {"iter", "bridge"} PROVE Tracked(t)'
  BY <1>8 DEF Tracked
<1> HIDE DEF goVars, cVars, iterVars, Goto
<1>9. ASSUME Calls(t) PROVE Tracked(t)'
  BY <1>1, <1>8, <1>5, <1>9 DEF Calls
<1>10. ASSUME Runs(t) PROVE Tracked(t)'
  BY <1>2, <1>3, <1>4, <1>6, <1>8, <1>10 DEF Runs
<1> QED
  BY <1>4, <1>7, <1>8, <1>9, <1>10 DEF Acts

\* The finalizer touches the vectors of the client it destroys, on which no thread
\* works.
LEMMA TrackedBesides ==
  ASSUME NEW t \in Threads, t # Finalizer, TypeInv, MuxInv, Tracked(t), Acts(Finalizer)
  PROVE  Tracked(t)'
<1>1. Alike(t)
  BY OthersUntouched, MuxAssumption DEF MuxAssumption
<1>2. pc[Finalizer] \in Destroying \cup {"idle"}
  BY MuxAssumption DEF MuxAssumption, MuxInv, Placement
<1>3. \/ \E a \in Addrs : Destroy(Finalizer, a)
      \/ ClearLock(Finalizer) \/ Clear(Finalizer) \/ Free(Finalizer)
  BY <1>2 DEF Acts, Calls, On, Dispatch, Off, MayCall, Locks, OnLock, OffLock, SnapLock, Lock, Runs,
              OnBody, OffCheck, OffBody, Iterate, DispatchEnds, CallBridge, Snapshot, CallHandler,
              BridgeReturns, HandlerReturns, Destroying
<1>4. CASE Free(Finalizer)
  <2>1. pc[Finalizer] = "free"
    BY <1>4 DEF Free
  <2>2. client[arg[Finalizer][1]] = "dying"
    BY <2>1, MuxAssumption DEF MuxAssumption, MuxInv, Placement, Destroying
  <2>3. pc[t] \in {"iter", "bridge"} => client[arg[t][1]] = "live" /\ arg[t] \in Slots
    BY DEF MuxInv, Placement, Destroying, TypeInv, TypeOK
  <2>4. registry' = [s \in Slots |-> IF s[1] = arg[Finalizer][1] THEN <<>> ELSE registry[s]]
    BY <1>4 DEF Free
  <2>5. pc[t] \in {"iter", "bridge"} => registry'[arg[t]] = registry[arg[t]]
    BY <2>2, <2>3, <2>4
  <2> QED
    BY <1>1, <2>5 DEF Alike, Tracked
<1>5. CASE ~Free(Finalizer)
  <2>1. UNCHANGED registry
    BY <1>3, <1>5 DEF Destroy, ClearLock, Clear, Lock, cVars
  <2> QED
    BY <1>1, <2>1 DEF Alike, Tracked
<1> QED
  BY <1>4, <1>5

\* When one thread of the program uses the library, a dispatch never follows a
\* pointer to a bridge that was deleted, whatever the handlers it calls register and
\* remove, and whatever the finalizer destroys meanwhile.
THEOREM BridgesAlive ==
  ASSUME KeepsUsing, NEW thread, thread # Finalizer, Threads = {thread, Finalizer}
  PROVE  Spec => []BridgeAlive
<1> DEFINE AllOnce == \A t \in Threads : Once(t)
<1>1. thread \in Threads /\ Finalizer \in Threads
  OBVIOUS
<1>2. Init => AllOnce /\ Tracked(thread)
  BY <1>1, OnceInit DEF Init, Tracked
<1>3. TypeInv /\ MuxInv /\ AllOnce /\ [Next]_vars => AllOnce'
  BY OnceStep
<1>4. TypeInv /\ MuxInv /\ AllOnce /\ Tracked(thread) /\ [Next]_vars => Tracked(thread)'
  <2> SUFFICES ASSUME TypeInv, MuxInv, AllOnce, Tracked(thread), [Next]_vars
               PROVE  Tracked(thread)'
    OBVIOUS
  <2>1. CASE Acts(thread) \/ (\E a \in Addrs : Create(a)) \/ UNCHANGED vars
    BY <1>1, <2>1, TrackedStep
  <2>2. CASE Acts(Finalizer)
    BY <1>1, <2>2, TrackedBesides
  <2>3. \/ Acts(thread) \/ Acts(Finalizer)
        \/ (\E a \in Addrs : Create(a)) \/ UNCHANGED vars
    BY DEF Next, Acts
  <2> QED
    BY <2>1, <2>2, <2>3
<1>5. MuxInv /\ Tracked(thread) => BridgeAlive
  <2> SUFFICES ASSUME MuxInv, Tracked(thread), NEW t \in Threads, pc[t] = "bridge"
               PROVE  \E i \in DOMAIN registry[arg[t]] : registry[arg[t]][i] = current[t]
    BY DEF BridgeAlive
  <2>1. t = thread
    BY DEF MuxInv, Placement, Destroying
  <2> QED
    BY <2>1 DEF Tracked
<1>6. Spec => [](TypeInv /\ MuxInv)
  BY MuxInvCorrect
<1> QED
  BY <1>2, <1>3, <1>4, <1>5, <1>6, PTL DEF Spec
=============================================================================
