----------------------------- MODULE FlowStore -----------------------------
(***************************************************************************)
(* What the write path of src/src/storage.rs promises a reader of the      *)
(* committed store, whatever transactions, ledger rows and minutes it is   *)
(* made of.  A step absorbs new facts or forgets old ones, never both.     *)
(***************************************************************************)
EXTENDS Integers, FiniteSets, Functions

CONSTANTS
    FlowIds, Macs, Domains,
    ClientMac,          \* [FlowIds -> Macs]
    Attribution,        \* what a flow may be attributed to: records with a domain
    AtLeast(_, _),      \* the ranking of attributions
    None

VARIABLES
    flows,      \* flow rows: bytes and attr
    volume,     \* bytes of each device over its minutes
    named       \* bytes of each device and domain over its minutes

store == <<flows, volume, named>>

Flow == [bytes: Nat, attr: Attribution \cup {None}]

TypeOK ==
    /\ \A f \in FlowIds : flows[f] \in Flow \cup {None}
    /\ volume \in [Macs -> Nat]
    /\ named \in [Macs -> [Domains -> Nat]]

Of(m) == {f \in FlowIds : ClientMac[f] = m}
Attr(row) == IF row = None THEN None ELSE row.attr
Bytes(row) == IF row = None THEN 0 ELSE row.bytes
NamedBytes(row) == IF Attr(row) = None THEN 0 ELSE row.bytes

-----------------------------------------------------------------------------

\* A flow is stored, counts on, or is better attributed.
Absorbed(old, new) ==
    \/ new = old
    \/ /\ new # None /\ Bytes(new) >= Bytes(old)
       /\ Attr(old) # None =>
              /\ Attr(new) # None
              /\ Attr(new) = Attr(old) \/ AtLeast(Attr(new), Attr(old))

\* A committed batch or backfill: a device's minutes grow as its flows do, and
\* no byte is put under a name more than once.
Absorb ==
    /\ \A f \in FlowIds : Absorbed(flows[f], flows'[f])
    /\ \A m \in Macs :
           /\ volume'[m] - volume[m] =
                  SumFunction([f \in Of(m) |-> Bytes(flows'[f]) - Bytes(flows[f])])
           /\ SumFunction([d \in Domains |-> named'[m][d] - named[m][d]]) <=
                  SumFunction([f \in Of(m) |-> NamedBytes(flows'[f]) - NamedBytes(flows[f])])

\* A deletion or one statement of the sweep: rows go or lose their name, and a
\* name that is taken from a flow is gone from its device's minutes too.
Forget ==
    /\ \A f \in FlowIds :
           \/ flows'[f] \in {flows[f], None}
           \/ /\ Attr(flows[f]) # None
              /\ flows'[f] = [flows[f] EXCEPT !.attr = None]
              /\ named'[ClientMac[f]][flows[f].attr.domain] = 0
    /\ \A m \in Macs :
           volume'[m] <= volume[m] /\ \A d \in Domains : named'[m][d] <= named[m][d]

Spec == TypeOK /\ [][TypeOK' /\ (Absorb \/ Forget)]_store
=============================================================================
