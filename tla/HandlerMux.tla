----------------------------- MODULE HandlerMux -----------------------------
(***************************************************************************)
(* Handlers of the Go binding: the maps of callbacks.go behind handlersMu, *)
(* the handler vectors of spore::Client below them, and the threads that   *)
(* register, remove, dispatch and destroy.  Go keeps one bridge per client *)
(* and kind of message in the C vector and calls its own handlers from it. *)
(*                                                                         *)
(* A client is named by its address, which malloc may hand out again.  The *)
(* five kinds are handled by five copies of the same code.  Finalizers run *)
(* on a goroutine of the Go runtime, beside the threads of the program.    *)
(***************************************************************************)
EXTENDS Naturals, Sequences, FiniteSets, Functions, SequencesExt

CONSTANTS
  Threads,
  Finalizer,   \* the one of them that runs finalizers, and nothing else
  NoThread,    \* "handlersMu is free"
  Addrs,       \* addresses of clients
  NoAddr,      \* the client of a Handler that was removed
  Kinds,       \* request, response, witness, publish, parse error
  KeepsUsing,  \* TRUE: the program keeps the promise of Destroy
  MaxClients,  \* bound: clients created
  MaxIds       \* bound: handlers registered

ASSUME MuxAssumption ==
  /\ IsFiniteSet(Threads) /\ Finalizer \in Threads /\ Addrs # {} /\ Kinds # {}
  /\ NoThread \notin Threads /\ NoAddr \notin Addrs
  /\ KeepsUsing \in BOOLEAN
  /\ MaxClients \in Nat /\ MaxIds \in Nat

Ids     == 1 .. MaxIds
Bridges == 1 .. MaxIds         \* a bridge is made for a handler, so no more
Slots   == Addrs \X Kinds

VARIABLES
  \* Go, under handlersMu
  handlersMu,
  nextHandlerID,
  handlers,    \* the maps: a partial function from Slots to sets of ids
  bridges,     \* the maps: a partial function from Slots to bridges
  \* Go, the Handler objects given to callers
  handle,      \* for each id issued its client and kind
  \* C
  client,      \* "none", "live", or "dying": Go has cleared its maps
  nClients,
  registry,    \* the vectors of spore::Client, for each slot
  nBridges,
  \* threads
  pc,
  back,        \* "idle", or "handler" for a call a handler makes
  arg,         \* the slot a call is about
  target,      \* the id ClientOffHandler is about
  it, end,     \* the range-for over a vector: position and size at its start
  current,     \* the bridge it points to
  todo,        \* the snapshot of handlers still to call
  \* history of a dispatch
  atStart,     \* handlers registered when it began
  idAtStart,   \* nextHandlerID when it began
  called       \* handlers called so far

goVars   == <<handlersMu, nextHandlerID, handlers, bridges, handle>>
cVars    == <<client, nClients, registry, nBridges>>
iterVars == <<it, end, current, todo, atStart, idAtStart, called>>
vars     == <<goVars, cVars, pc, back, arg, target, iterVars>>

Pcs == {"idle", "onLock", "on", "offCheck", "offLock", "off", "clearLock", "clear",
        "free", "iter", "bridge", "snapLock", "snap", "handlers", "handler"}

TypeOK ==
  /\ handlersMu \in Threads \cup {NoThread}
  /\ nextHandlerID \in 0 .. MaxIds
  /\ DOMAIN handlers \subseteq Slots
  /\ \A s \in DOMAIN handlers : handlers[s] \subseteq Ids
  /\ DOMAIN bridges \subseteq Slots
  /\ \A s \in DOMAIN bridges : bridges[s] \in Bridges
  /\ handle \in [1 .. nextHandlerID -> (Addrs \cup {NoAddr}) \X Kinds]
  /\ client \in [Addrs -> {"none", "live", "dying"}]
  /\ nClients \in 0 .. MaxClients
  /\ registry \in [Slots -> Seq(Bridges)]
  /\ nBridges \in 0 .. MaxIds
  /\ pc \in [Threads -> Pcs]
  /\ back \in [Threads -> {"idle", "handler"}]
  /\ arg \in [Threads -> Slots]
  /\ target \in [Threads -> Ids \cup {0}]
  /\ it \in [Threads -> Nat] /\ end \in [Threads -> Nat]
  /\ current \in [Threads -> Bridges \cup {0}]
  /\ todo \in [Threads -> SUBSET Ids]
  /\ atStart \in [Threads -> SUBSET Ids]
  /\ idAtStart \in [Threads -> 0 .. MaxIds]
  /\ called \in [Threads -> Seq(Ids)]

Init ==
  /\ handlersMu = NoThread
  /\ nextHandlerID = 0
  /\ handlers = <<>> /\ bridges = <<>>
  /\ handle = <<>>
  /\ client = [a \in Addrs |-> "none"]
  /\ nClients = 0
  /\ registry = [s \in Slots |-> <<>>]
  /\ nBridges = 0
  /\ pc = [t \in Threads |-> "idle"]
  /\ back = [t \in Threads |-> "idle"]
  /\ arg \in [Threads -> {CHOOSE s \in Slots : TRUE}]
  /\ target = [t \in Threads |-> 0]
  /\ it = [t \in Threads |-> 0] /\ end = [t \in Threads |-> 0]
  /\ current = [t \in Threads |-> 0]
  /\ todo = [t \in Threads |-> {}]
  /\ atStart = [t \in Threads |-> {}]
  /\ idAtStart = [t \in Threads |-> 0]
  /\ called = [t \in Threads |-> <<>>]

----------------------------------------------------------------------------
(* Helpers *)

Goto(t, l) == pc' = [pc EXCEPT ![t] = l]

Lock(t, from, to) ==
  /\ pc[t] = from
  /\ handlersMu = NoThread
  /\ handlersMu' = t
  /\ Goto(t, to)
  /\ UNCHANGED <<nextHandlerID, handlers, bridges, handle, cVars, back, arg, target, iterVars>>

\* Go map: m[k] = v, and delete(m, k).
With(m, k, v) == [x \in DOMAIN m \cup {k} |-> IF x = k THEN v ELSE m[x]]
Without(m, K) == Restrict(m, DOMAIN m \ K)

\* m[k], which is nil for a key that is absent.
At(m, k) == IF k \in DOMAIN m THEN m[k] ELSE {}

\* A thread begins a call on a live client when it is in none, or from a
\* handler, whose client is the one that dispatches.
MayCall(t, a) ==
  /\ t # Finalizer
  /\ pc[t] \in {"idle", "handler"}
  /\ client[a] = "live"
  /\ pc[t] = "handler" => arg[t][1] = a

\* A call made by a handler returns into it.  (A handler's call is about the
\* slot that dispatches; those of other slots meet it nowhere but at the lock.)
Return(t) ==
  /\ Goto(t, back[t])
  /\ back' = [back EXCEPT ![t] = "idle"]
  /\ target' = [target EXCEPT ![t] = 0]

----------------------------------------------------------------------------
(* ClientOnRequest and its four siblings *)

On(t, s) ==
  /\ MayCall(t, s[1])
  /\ nextHandlerID + Cardinality({u \in Threads : pc[u] \in {"onLock", "on"}}) < MaxIds
  /\ pc[t] = "handler" => s = arg[t]
  /\ arg' = [arg EXCEPT ![t] = s]
  /\ back' = [back EXCEPT ![t] = pc[t]]
  /\ Goto(t, "onLock")
  /\ UNCHANGED <<goVars, cVars, target, iterVars>>

OnLock(t) == Lock(t, "onLock", "on")

\* Mutant of nextID: the counter is read and not incremented.
currentID == nextHandlerID

\* nextID
nextID == nextHandlerID + 1

\* Mutant of OnBody: a bridge is registered for every handler.
OnBodyAlwaysBridges(t) ==
  LET s  == arg[t]
      id == nextID
  IN  /\ pc[t] = "on"
      /\ client[s[1]] # "none"
      /\ nBridges' = nBridges + 1
      /\ registry' = [registry EXCEPT ![s] = Append(@, nBridges + 1)]
      /\ bridges' = With(bridges, s, nBridges + 1)
      /\ nextHandlerID' = id
      /\ handlers' = With(handlers, s, At(handlers, s) \cup {id})
      /\ handle' = Append(handle, s)
      /\ handlersMu' = NoThread
      /\ Return(t)
      /\ UNCHANGED <<client, nClients, arg, iterVars>>

\* The first handler of a slot registers the bridge.  Registering on a client
\* that was freed meanwhile is undefined: here the program ends.
OnBody(t) ==
  LET s  == arg[t]
      id == nextID
  IN  /\ pc[t] = "on"
      /\ \/ /\ s \in DOMAIN handlers
            /\ UNCHANGED <<registry, nBridges, bridges>>
         \/ /\ s \notin DOMAIN handlers
            /\ client[s[1]] # "none"
            /\ nBridges' = nBridges + 1
            /\ registry' = [registry EXCEPT ![s] = Append(@, nBridges + 1)]
            /\ bridges' = With(bridges, s, nBridges + 1)
      /\ nextHandlerID' = id
      /\ handlers' = With(handlers, s, At(handlers, s) \cup {id})
      /\ handle' = Append(handle, s)
      /\ handlersMu' = NoThread
      /\ Return(t)
      /\ UNCHANGED <<client, nClients, arg, iterVars>>

----------------------------------------------------------------------------
(* ClientOffHandler *)

\* Any handle may be given, one removed before or of another client included.
Off(t, a, id) ==
  /\ MayCall(t, a)
  /\ id \in DOMAIN handle
  /\ arg' = [arg EXCEPT ![t] = <<a, handle[id][2]>>]
  /\ pc[t] = "handler" => arg'[t] = arg[t]
  /\ target' = [target EXCEPT ![t] = id]
  /\ back' = [back EXCEPT ![t] = pc[t]]
  /\ Goto(t, "offCheck")
  /\ UNCHANGED <<goVars, cVars, iterVars>>

\* h.client is looked at without the lock.
OffCheck(t) ==
  /\ pc[t] = "offCheck"
  /\ IF handle[target[t]][1] = arg[t][1]
       THEN Goto(t, "offLock") /\ UNCHANGED <<back, target>>
       ELSE Return(t)
  /\ UNCHANGED <<goVars, cVars, arg, iterVars>>

OffLock(t) == Lock(t, "offLock", "off")

\* unregisterHandler: the bridge, if it is found, leaves the vector and is deleted.
Unregistered(s) == [registry EXCEPT ![s] = RemoveFirst(@, bridges[s])]

\* Mutant of OffBody: the empty map and its bridge stay in place.
OffBodyKeepsMap(t) ==
  LET s  == arg[t]
      id == target[t]
  IN  /\ pc[t] = "off"
      /\ IF s \in DOMAIN handlers
           THEN /\ handlers' = [handlers EXCEPT ![s] = @ \ {id}]
                /\ registry' = IF handlers[s] \subseteq {id} THEN Unregistered(s) ELSE registry
           ELSE UNCHANGED <<handlers, registry>>
      /\ UNCHANGED bridges
      /\ handle' = [handle EXCEPT ![id] = <<NoAddr, @[2]>>]
      /\ handlersMu' = NoThread
      /\ Return(t)
      /\ UNCHANGED <<nextHandlerID, client, nClients, nBridges, arg, iterVars>>

\* The last handler of a slot takes the bridge and both map entries with it.
OffBody(t) ==
  LET s  == arg[t]
      id == target[t]
  IN  /\ pc[t] = "off"
      /\ \/ s \notin DOMAIN handlers /\ UNCHANGED <<handlers, bridges, registry>>
         \/ /\ s \in DOMAIN handlers /\ ~(handlers[s] \subseteq {id})
            /\ handlers' = [handlers EXCEPT ![s] = @ \ {id}]
            /\ UNCHANGED <<bridges, registry>>
         \/ /\ s \in DOMAIN handlers /\ handlers[s] \subseteq {id}
            /\ registry' = Unregistered(s)
            /\ handlers' = Without(handlers, {s})
            /\ bridges' = Without(bridges, {s})
      /\ handle' = [handle EXCEPT ![id] = <<NoAddr, @[2]>>]
      /\ handlersMu' = NoThread
      /\ Return(t)
      /\ UNCHANGED <<nextHandlerID, client, nClients, nBridges, arg, iterVars>>

----------------------------------------------------------------------------
(* spore_client_create, ClientDestroy *)

Create(a) ==
  /\ client[a] = "none"
  /\ nClients < MaxClients
  /\ nClients' = nClients + 1
  /\ client' = [client EXCEPT ![a] = "live"]
  /\ UNCHANGED <<goVars, registry, nBridges, pc, back, arg, target, iterVars>>

Destroying == {"clearLock", "clear", "free"}

\* Nothing that u is in refers to the Go client of arg[u].  On and Off no longer
\* do while they run on the C client.  KeepsUsing is a promise of the program:
\* who calls them uses the client afterwards.
LetsGo(u) ==
  \/ pc[u] = "idle"
  \/ /\ ~KeepsUsing
     /\ pc[u] \in {"onLock", "on", "offCheck", "offLock", "off"} /\ back[u] = "idle"

\* The finalizer runs when nothing refers to the Go client.
Destroy(t, a) ==
  /\ t = Finalizer /\ pc[t] = "idle"
  /\ client[a] = "live"
  /\ \A u \in Threads \ {t} : arg[u][1] = a => LetsGo(u)
  /\ client' = [client EXCEPT ![a] = "dying"]
  /\ arg' = [arg EXCEPT ![t] = <<a, @[2]>>]
  /\ Goto(t, "clearLock")
  /\ UNCHANGED <<goVars, nClients, registry, nBridges, back, target, iterVars>>

ClearLock(t) == Lock(t, "clearLock", "clear")

\* Mutant of Clear: the maps keep the entries of the destroyed client.
ClearNothing(t) ==
  /\ pc[t] = "clear"
  /\ handlersMu' = NoThread
  /\ Goto(t, "free")
  /\ UNCHANGED <<nextHandlerID, handlers, bridges, handle, cVars, back, arg, target, iterVars>>

\* clearClientHandlers
Clear(t) ==
  LET slots == {arg[t][1]} \X Kinds
  IN  /\ pc[t] = "clear"
      /\ handlers' = Without(handlers, slots)
      /\ bridges' = Without(bridges, slots)
      /\ handlersMu' = NoThread
      /\ Goto(t, "free")
      /\ UNCHANGED <<nextHandlerID, handle, cVars, back, arg, target, iterVars>>

\* ~Client deletes the bridges that are left.
Free(t) ==
  /\ pc[t] = "free"
  /\ client' = [client EXCEPT ![arg[t][1]] = "none"]
  /\ registry' = [s \in Slots |-> IF s[1] = arg[t][1] THEN <<>> ELSE registry[s]]
  /\ Goto(t, "idle")
  /\ UNCHANGED <<goVars, nClients, nBridges, back, arg, target, iterVars>>

----------------------------------------------------------------------------
(* listen() dispatches one message *)

\* for (auto* h : requestHandlers): the end is taken once, and so is the
\* storage that a later position is read from.
Dispatch(t, s) ==
  /\ pc[t] = "idle"
  /\ MayCall(t, s[1])
  /\ arg' = [arg EXCEPT ![t] = s]
  /\ it' = [it EXCEPT ![t] = 1]
  /\ end' = [end EXCEPT ![t] = Len(registry[s])]
  /\ atStart' = [atStart EXCEPT ![t] = At(handlers, s)]
  /\ idAtStart' = [idAtStart EXCEPT ![t] = nextHandlerID]
  /\ called' = [called EXCEPT ![t] = <<>>]
  /\ Goto(t, "iter")
  /\ UNCHANGED <<goVars, cVars, back, target, current, todo>>

\* A position past what the vector holds now is memory it no longer owns;
\* 0 stands for the bridge whose pointer is still found there.
Iterate(t) ==
  /\ pc[t] = "iter" /\ it[t] <= end[t]
  /\ current' = [current EXCEPT ![t] =
       IF it[t] <= Len(registry[arg[t]]) THEN registry[arg[t]][it[t]] ELSE 0]
  /\ Goto(t, "bridge")
  /\ UNCHANGED <<goVars, cVars, back, arg, target, it, end, todo, atStart, idAtStart, called>>

DispatchEnds(t) ==
  /\ pc[t] = "iter" /\ it[t] > end[t]
  /\ Goto(t, "idle")
  /\ current' = [current EXCEPT ![t] = 0]
  /\ it' = [it EXCEPT ![t] = 0] /\ end' = [end EXCEPT ![t] = 0]
  /\ atStart' = [atStart EXCEPT ![t] = {}]
  /\ idAtStart' = [idAtStart EXCEPT ![t] = 0]
  /\ called' = [called EXCEPT ![t] = <<>>]
  /\ UNCHANGED <<goVars, cVars, back, arg, target, todo>>

\* h->onRequest(self, &req) reads the bridge and calls goRequestBridge.
CallBridge(t) ==
  /\ pc[t] = "bridge"
  /\ Goto(t, "snapLock")
  /\ UNCHANGED <<goVars, cVars, back, arg, target, iterVars>>

SnapLock(t) == Lock(t, "snapLock", "snap")

\* Mutant of Snapshot: the lock is held while the handlers run.
SnapshotLocked(t) ==
  /\ pc[t] = "snap"
  /\ todo' = [todo EXCEPT ![t] = At(handlers, arg[t])]
  /\ Goto(t, "handlers")
  /\ UNCHANGED <<goVars, cVars, back, arg, target, it, end, current, atStart, idAtStart, called>>

\* The bridge copies the handlers and lets the lock go before it calls them.
Snapshot(t) ==
  /\ pc[t] = "snap"
  /\ todo' = [todo EXCEPT ![t] = At(handlers, arg[t])]
  /\ handlersMu' = NoThread
  /\ Goto(t, "handlers")
  /\ UNCHANGED <<nextHandlerID, handlers, bridges, handle, cVars, back, arg, target,
                 it, end, current, atStart, idAtStart, called>>

\* A map is walked in no particular order.
CallHandler(t) ==
  /\ pc[t] = "handlers"
  /\ \E id \in todo[t] :
       /\ todo' = [todo EXCEPT ![t] = @ \ {id}]
       /\ called' = [called EXCEPT ![t] = Append(@, id)]
  /\ Goto(t, "handler")
  /\ UNCHANGED <<goVars, cVars, back, arg, target, it, end, current, atStart, idAtStart>>

HandlerReturns(t) ==
  /\ pc[t] = "handler"
  /\ Goto(t, "handlers")
  /\ UNCHANGED <<goVars, cVars, back, arg, target, iterVars>>

BridgeReturns(t) ==
  /\ pc[t] = "handlers" /\ todo[t] = {}
  /\ it' = [it EXCEPT ![t] = @ + 1]
  /\ Goto(t, "iter")
  /\ UNCHANGED <<goVars, cVars, back, arg, target, end, current, todo,
                 atStart, idAtStart, called>>

----------------------------------------------------------------------------

Locks(t) == OnLock(t) \/ OffLock(t) \/ ClearLock(t) \/ SnapLock(t)

Runs(t) ==
  \/ OnBody(t) \/ OffCheck(t) \/ OffBody(t) \/ Clear(t) \/ Free(t)
  \/ Iterate(t) \/ DispatchEnds(t) \/ CallBridge(t) \/ Snapshot(t)
  \/ CallHandler(t) \/ BridgeReturns(t)

Calls(t) ==
  \/ \E s \in Slots : On(t, s) \/ Dispatch(t, s)
  \/ \E a \in Addrs : Destroy(t, a) \/ \E id \in Ids : Off(t, a, id)

Next ==
  \/ \E t \in Threads : Calls(t) \/ Locks(t) \/ Runs(t) \/ HandlerReturns(t)
  \/ \E a \in Addrs : Create(a)

Spec == Init /\ [][Next]_vars

\* Threads run, a handler returns after some calls (the finalizer runs none), and
\* a sync.Mutex lets everyone in who waits.
Fairness ==
  /\ \A t \in Threads : WF_vars(Runs(t)) /\ SF_vars(Locks(t))
  /\ \A t \in Threads \ {Finalizer} : SF_vars(HandlerReturns(t))

FairSpec == Spec /\ Fairness

----------------------------------------------------------------------------
(* Properties *)

\* A client in use has exactly one bridge in the vector of a kind when Go has
\* handlers of that kind, the one Go will unregister, and none when it has not.
\* (Without KeepsUsing an On that overlaps the destruction leaves handlers, but
\* no bridge, for the next client at that address.)
BridgeIffHandlers ==
  \A s \in Slots : client[s[1]] = "live" =>
    /\ s \in DOMAIN handlers <=> s \in DOMAIN bridges
    /\ registry[s] = IF s \in DOMAIN handlers THEN <<bridges[s]>> ELSE <<>>
    /\ s \in DOMAIN handlers => handlers[s] # {}

\* A message goes once to every handler that is registered for as long as its
\* dispatch lasts, to none twice, and to none that was removed before it.
EachHandlerOnce ==
  \A t \in Threads :
    /\ \A i, j \in DOMAIN called[t] : called[t][i] = called[t][j] => i = j
    /\ \A i \in DOMAIN called[t] :
         called[t][i] \in atStart[t] \/ called[t][i] > idAtStart[t]
    /\ pc[t] = "iter" /\ it[t] > end[t] =>
         atStart[t] \cap At(handlers, arg[t]) \subseteq Range(called[t])

\* When one thread of the program uses a client, a dispatch never follows a
\* pointer to a bridge that was deleted, although handlers may remove themselves
\* and others, register new ones, and thereby change the vector under the loop,
\* and although the finalizer destroys other clients meanwhile.
BridgeAlive ==
  \A t \in Threads : pc[t] = "bridge" =>
    \E i \in DOMAIN registry[arg[t]] : registry[arg[t]][i] = current[t]

\* With KeepsUsing, the maps hold nothing of a destroyed client, so a client
\* that gets the same address starts with no handlers and no bridge.
NothingLeftBehind ==
  \A s \in Slots : client[s[1]] = "none" =>
    s \notin DOMAIN handlers /\ s \notin DOMAIN bridges /\ registry[s] = <<>>

\* A dispatch comes to an end, whatever its handlers register and remove and
\* whatever other threads do: nobody waits for handlersMu while it is held by
\* a thread that runs handlers.
DispatchReturns ==
  \A t \in Threads : pc[t] = "iter" ~> pc[t] = "idle"

=============================================================================
