--------------------------------- MODULE Htm ---------------------------------
(***************************************************************************)
(* Hardware transactions as txlock uses them (txutil.h).  The hardware part *)
(* is external: a transaction starts at XBegin, which takes a checkpoint of *)
(* the thread's registers; nothing it writes is visible to other threads    *)
(* before it commits; an abort puts the checkpoint back and makes XBegin    *)
(* return a failure.  A read inside a transaction puts the location in its  *)
(* read set (watch); a write to it by another thread dooms the transaction, *)
(* which can then only abort.  It may also abort at any time, for reasons   *)
(* that are not modelled: conflicts on the program's own data, capacity,    *)
(* interrupts, an explicit abort (tl_stop_spec).                            *)
(*                                                                         *)
(* The software part is enter_htm and its thread-local flag spec_entry.     *)
(***************************************************************************)
EXTENDS LockClient

CONSTANTS NumTries,     \* TK_NUM_TRIES
          MinDistance,  \* TK_MIN_DISTANCE
          MaxDistance   \* TK_MAX_DISTANCE

(* Unsigned in the code; setting the distances the wrong way round through  *)
(* the environment is left out.                                            *)
ASSUME TmParametersAssumption ==
  /\ NumTries \in Nat
  /\ MinDistance \in Nat
  /\ MaxDistance \in Nat
  /\ MinDistance <= MaxDistance

VARIABLES spec_entry,  \* spec_entry[t]: what t speculates on, or Null
          tries,       \* tries[t]: aborts seen by the lock call in progress
          depth,       \* depth[t]: nesting of t's transactions, 0 outside
          saved,       \* saved[t]: the checkpoint of t's outermost XBegin
          watch,       \* watch[t]: the locks whose word t's transaction read
          doomed       \* doomed[t]: a word in watch[t] has been overwritten

hardwareVars == <<depth, saved, watch, doomed>>

htmVars == <<spec_entry, tries, depth, saved, watch, doomed>>

InTx(t) == depth[t] > 0

NoCheckpoint == [held |-> {}, lk |-> Null, tries |-> 0]

HtmInit ==
  /\ spec_entry = [t \in Threads |-> Null]
  /\ tries = [t \in Threads |-> 0]
  /\ depth = [t \in Threads |-> 0]
  /\ saved = [t \in Threads |-> NoCheckpoint]
  /\ watch = [t \in Threads |-> {}]
  /\ doomed = [t \in Threads |-> FALSE]

HtmTypeOK ==
  /\ spec_entry \in [Threads -> Locks \cup {Null}]
  /\ tries \in [Threads -> Nat]
  /\ depth \in [Threads -> Nat]
  /\ saved \in [Threads -> [held : SUBSET Locks, lk : Locks \cup {Null}, tries : Nat]]
  /\ watch \in [Threads -> SUBSET Locks]
  /\ doomed \in [Threads -> BOOLEAN]

(* What t holds in the state that other threads can see: a speculating     *)
(* thread really holds what it held when its transaction began.            *)
Owned(t) == IF InTx(t) THEN saved[t].held ELSE held[t]

(***************************************************************************)
(* The hardware.                                                           *)
(***************************************************************************)
XBegin(t) ==
  /\ depth' = [depth EXCEPT ![t] = @ + 1]
  /\ saved' = IF InTx(t) THEN saved
              ELSE [saved EXCEPT ![t] =
                      [held |-> held[t], lk |-> lk[t], tries |-> tries[t]]]
  /\ UNCHANGED <<watch, doomed>>

LeaveTx(t) ==
  /\ depth' = [depth EXCEPT ![t] = 0]
  /\ saved' = [saved EXCEPT ![t] = NoCheckpoint]
  /\ watch' = [watch EXCEPT ![t] = {}]
  /\ doomed' = [doomed EXCEPT ![t] = FALSE]

(* The inner levels are flattened into the outermost one, which commits    *)
(* only if no word it read has changed.                                    *)
XEnd(t) ==
  \/ /\ depth[t] > 1
     /\ depth' = [depth EXCEPT ![t] = @ - 1]
     /\ UNCHANGED <<saved, watch, doomed>>
  \/ /\ depth[t] = 1
     /\ ~doomed[t]
     /\ LeaveTx(t)

(* t's transaction reads the word of lock l.                               *)
Watch(t, l) ==
  /\ watch' = [watch EXCEPT ![t] = @ \cup {l}]
  /\ UNCHANGED <<depth, saved, doomed>>

(* The words of the locks in changed are overwritten outside transactions. *)
Doom(changed) ==
  /\ doomed' = [u \in Threads |-> doomed[u] \/ watch[u] \cap changed # {}]
  /\ UNCHANGED <<depth, saved, watch>>

Abort(t) ==
  /\ InTx(t)
  /\ pc' = [pc EXCEPT ![t] = "abort"]
  /\ held' = [held EXCEPT ![t] = saved[t].held]
  /\ lk' = [lk EXCEPT ![t] = saved[t].lk]
  /\ tries' = [tries EXCEPT ![t] = saved[t].tries]
  /\ LeaveTx(t)
  /\ UNCHANGED spec_entry

(***************************************************************************)
(* enter_htm(primitive): sets spec_entry and begins.  Started is what the   *)
(* caller does when it returns 0, inside the transaction.  A begin that     *)
(* fails at once is an abort at label "abort".                             *)
(***************************************************************************)
EnterHtm(t, primitive, Started) ==
  /\ spec_entry' = [spec_entry EXCEPT ![t] = primitive]
  /\ UNCHANGED tries
  /\ \/ XBegin(t) /\ Started
     \/ ~InTx(t) /\ Goto(t, "abort") /\ UNCHANGED hardwareVars

(* Mutant of EnterHtmFailed: spec_entry stays set.                         *)
EnterHtmFailedKeepingFlag(t, next) ==
  /\ pc[t] = "abort"
  /\ Goto(t, next)
  /\ UNCHANGED <<spec_entry, hardwareVars>>

(* enter_htm after an abort: it clears spec_entry and returns 1 to the     *)
(* caller, which goes on at label next.                                    *)
EnterHtmFailed(t, next) ==
  /\ pc[t] = "abort"
  /\ spec_entry' = [spec_entry EXCEPT ![t] = Null]
  /\ Goto(t, next)
  /\ UNCHANGED hardwareVars

(* tries++ in the caller, and its test against TK_NUM_TRIES.               *)
CountTry(t) == tries' = [tries EXCEPT ![t] = @ + 1]

OutOfTries(t) == tries[t] + 1 >= NumTries

(***************************************************************************)
(* The test of spec_entry at the start of a prefetching lock's functions.   *)
(***************************************************************************)

(* With spec_entry set the function does nothing but return 0.             *)
Elided(t, locks) ==
  /\ spec_entry[t] # Null
  /\ CallReturning(t, locks)
  /\ UNCHANGED htmVars

(* A lock or a try-lock of l, elided or entered at label entry.            *)
CallUnlessElided(t, l, entry) ==
  \/ Elided(t, held[t] \cup {l})
  \/ /\ spec_entry[t] = Null
     /\ Call(t, l, entry)
     /\ tries' = [tries EXCEPT ![t] = 0]
     /\ UNCHANGED <<spec_entry, hardwareVars>>
=============================================================================
