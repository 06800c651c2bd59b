--------------------------- MODULE FlowRefinement ---------------------------
(* The write path implements FlowStore.  A reader sees what is committed;    *)
(* the steps inside a transaction, and the ledger, are not visible to it.    *)
EXTENDS FlowLedger

\* A device's volume under all its names is a sum: a name has at most 253
\* bytes (domain.rs:33), so there are finitely many.
ASSUME DomainAssumption == IsFiniteSet(Domains)

Visible(f) ==
    IF db.flows[f] = None THEN None
    ELSE [bytes |-> db.flows[f].bytes, attr |-> db.flows[f].attr]
DeviceTotal(m) == SumFunction(db.deviceMin[m])
DomainTotal(m, dom) == SumFunction(db.domainMin[m][dom])

Store == INSTANCE FlowStore WITH
    flows <- [f \in FlowIds |-> Visible(f)],
    volume <- [m \in Macs |-> DeviceTotal(m)],
    named <- [m \in Macs |-> [dom \in Domains |-> DomainTotal(m, dom)]]

\* Every step of the write path is, for a reader, one of FlowStore's or none:
\* a transaction shows as a whole, a device is charged what its flows grew by,
\* a relabelled byte leaves one domain for another, and nothing that forgets
\* gives a flow or a domain anything.
ImplementsStore == Store!Spec
=============================================================================
