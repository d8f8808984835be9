--------------------------- MODULE AdapterManager ---------------------------
(***************************************************************************)
(* AdapterManager of src/adapters/plugin_loader.py.  Its dictionaries are  *)
(* all keyed by service and version; a slot is what they hold for one key, *)
(* and the functions below are its methods.  Each method takes the         *)
(* manager's lock around a body that does not suspend: one atomic step.    *)
(*                                                                         *)
(* None stands for an absent key as well as for a stored None: the code    *)
(* reads every dictionary with get, which does not tell them apart.  An    *)
(* adapter object is represented by the plugin it was made from, or by     *)
(* BuiltIn: nothing tells two adapters of the same origin apart.           *)
(***************************************************************************)
EXTENDS Naturals

CONSTANTS Plugins,  \* the module_path and class_name pairs that can be loaded
          BuiltIn,  \* the adapter made by _load_defaults or from an endpoint
          None

ASSUME AdapterAssumption ==
    BuiltIn \notin Plugins /\ None \notin Plugins /\ BuiltIn # None

Adapter == Plugins \cup {BuiltIn}
Maybe(set) == set \cup {None}

Slot == [adapter       : Maybe(Adapter),  \* _adapters
         spec          : Maybe(Plugins),  \* _adapter_specs
         previous      : Maybe(Adapter),  \* _previous_adapters
         previous_spec : Maybe(Plugins),  \* _previous_adapter_specs
         in_flight     : Nat,             \* _in_flight
         drained       : BOOLEAN]         \* _drained: the event is set

EmptySlot == [adapter |-> None, spec |-> None, previous |-> None,
              previous_spec |-> None, in_flight |-> 0, drained |-> FALSE]

DefaultSlot == [EmptySlot EXCEPT !.adapter = BuiltIn]

-----------------------------------------------------------------------------
\* Mutant: only the adapter is kept for a rollback, not its descriptor.
RegisterForgetsSpec(k, a, sp) ==
    [k EXCEPT !.previous = IF k.adapter # None THEN k.adapter ELSE @,
              !.adapter = a, !.spec = sp]

\* register_adapter of a valid adapter.
Register(k, a, sp) ==
    [k EXCEPT !.previous      = IF k.adapter # None THEN k.adapter ELSE @,
              !.previous_spec = IF k.adapter # None THEN k.spec ELSE @,
              !.adapter = a,
              !.spec = sp]

\* remove_adapter: refused while requests are inside.  What a rollback would
\* restore is not cleared.
Remove(k) ==
    IF k.in_flight > 0 THEN k ELSE [k EXCEPT !.adapter = None, !.spec = None]

\* rollback_adapter, one step back only.
CanRollBack(k) == k.previous # None /\ k.in_flight = 0

RollBack(k) ==
    IF CanRollBack(k)
    THEN [k EXCEPT !.adapter = k.previous, !.spec = k.previous_spec,
                   !.previous = None, !.previous_spec = None]
    ELSE k

-----------------------------------------------------------------------------
\* Mutant: entering leaves the event of an earlier drain set.
AcquireKeepsEvent(k) == [k EXCEPT !.in_flight = @ + 1]

\* acquire_adapter, of an adapter that exists: on entry and on exit.
Acquire(k) == [k EXCEPT !.in_flight = @ + 1, !.drained = FALSE]

Release(k) ==
    IF k.in_flight <= 1 THEN [k EXCEPT !.in_flight = 0, !.drained = TRUE]
    ELSE [k EXCEPT !.in_flight = @ - 1]

-----------------------------------------------------------------------------
\* A descriptor always describes the adapter it is stored with.
Describes(sp, a) == sp = IF a \in Plugins THEN a ELSE None
SlotMatches(k) ==
    /\ Describes(k.spec, k.adapter)
    /\ k.previous # None => Describes(k.previous_spec, k.previous)
=============================================================================
