----------------------------- MODULE FlowPaging -----------------------------
(***************************************************************************)
(* Flow pages: ObservationService::flow_page of src/src/service.rs over    *)
(* the keyset query list_flow_page of src/src/storage.rs.                  *)
(*                                                                         *)
(* A client walks a device's flows, newest first, page by page in both     *)
(* directions, with the cursors of its last page, which it may keep for    *)
(* any time.  Meanwhile flows are stored, seen again (which moves them to *)
(* the front) and deleted.  The server keeps no state between two pages.   *)
(***************************************************************************)
EXTENDS Integers, FiniteSets, Sequences, SequencesExt

CONSTANTS
    FlowIds,        \* flow_id values, as numbers: the query orders by them
    Macs,           \* devices
    ClientMac,      \* [FlowIds -> Macs], part of the flow's identity
    Windows,        \* FlowWindow durations
    Limits,         \* page sizes a client asks for
    MaxPageLimit,   \* MAX_FLOW_PAGE_LIMIT
    Retention,      \* flow_retention_hours
    MaxLag,         \* how old last_seen may be when a flow is stored
    MaxTime,        \* bound on the clock
    None

Times == 0 .. MaxTime
Row == [id: FlowIds, last: Times]
Cursor == [mac: Macs, window: Windows, since: Int, limit: Nat,
           dir: {"older", "newer"}, anchor: Row]
Page == [items: Seq(Row), next: Cursor \cup {None}, prev: Cursor \cup {None},
         since: Int, limit: Nat]

ASSUME PagingBounds ==
    /\ FlowIds \subseteq Nat /\ IsFiniteSet(FlowIds)
    /\ ClientMac \in [FlowIds -> Macs]
    /\ Windows \subseteq Nat \ {0} /\ Limits \subseteq Nat
    /\ MaxPageLimit \in Nat \ {0} /\ Retention \in Nat
    /\ MaxLag \in Nat /\ MaxTime \in Nat
ASSUME PagingNone == None \notin Times \cup Row \cup Cursor \cup Page

VARIABLES
    now,        \* wall clock
    lastSeen,   \* the flows table: last_seen of a flow, None when not stored
    page,       \* the client's last page, or None
    fresh,      \* whether nothing has changed since that page was read
    walk        \* flows shown since the client last began at the front and
                \* followed older pages, and flows that stayed put since then

vars == <<now, lastSeen, page, fresh, walk>>

-----------------------------------------------------------------------------
(* The keyset query.                                                        *)

Newer(a, b) == \/ a.last > b.last
               \/ a.last = b.last /\ a.id > b.id
Older(a, b) == Newer(b, a)

Stored(mac, since) ==
    {r \in Row : /\ ClientMac[r.id] = mac
                 /\ lastSeen[r.id] = r.last /\ r.last >= since}

\* Slip: rows seen at the anchor's time count as shown already.
BeyondWithoutId(r, anchor, dir) ==
    IF dir = "older" THEN r.last < anchor.last ELSE r.last > anchor.last

\* Slip: the anchor's own row is shown again.
BeyondInclusive(r, anchor, dir) ==
    IF dir = "older" THEN ~Newer(r, anchor) ELSE ~Older(r, anchor)

Beyond(r, anchor, dir) ==
    IF dir = "older" THEN Older(r, anchor) ELSE Newer(r, anchor)

\* Slip: newer rows are read from the front of the list.
FrontFirst(rows, dir) ==
    [i \in 1 .. Cardinality(rows) |->
        CHOOSE r \in rows : Cardinality({q \in rows : Newer(q, r)}) = i - 1]

Nearer(a, b, dir) == IF dir = "older" THEN Newer(a, b) ELSE Older(a, b)

\* Nearest to the anchor first, whichever way the client goes: a row comes
\* after as many as are nearer.
NearestFirst(rows, dir) ==
    [i \in 1 .. Cardinality(rows) |->
        CHOOSE r \in rows : Cardinality({q \in rows : Nearer(q, r, dir)}) = i - 1]

FirstOf(s, n) == SubSeq(s, 1, IF Len(s) < n THEN Len(s) ELSE n)

ListFlowPage(mac, since, anchor, dir, limit) ==
    LET past == {r \in Stored(mac, since) : anchor = None \/ Beyond(r, anchor, dir)}
    IN  FirstOf(NearestFirst(past, dir), limit)

-----------------------------------------------------------------------------
(* flow_page                                                                *)

ValidLimit(limit) == limit \in 1 .. MaxPageLimit

Later(s, t) == IF s > t THEN s ELSE t
WindowStart(window) == Later(now - window, now - Retention)

\* Slip: a row at the very start of the window is no anchor.
AcceptsInsideOnly(mac, c) ==
    c.mac = mac /\ ValidLimit(c.limit) /\ c.anchor.last <= now /\ c.anchor.last > c.since

\* A cursor is taken when it belongs to the device and could have been issued.
Accepts(mac, c) ==
    /\ c.mac = mac /\ ValidLimit(c.limit)
    /\ c.since <= now /\ c.anchor.last <= now /\ c.anchor.last >= c.since

\* Slip: the order of the query is kept, which for newer rows is ascending.
Unreversed(found, dir, limit) == FirstOf(found, limit)

\* Slip: the row read to find out whether there are more is shown as well.
WithProbe(found, dir, limit) == IF dir = "newer" THEN Reverse(found) ELSE found

Items(found, dir, limit) ==
    IF dir = "newer" THEN Reverse(FirstOf(found, limit)) ELSE FirstOf(found, limit)

\* One row more than the limit is read, to know whether there are more.
FlowPage(mac, window, since, limit, dir, anchor) ==
    LET found == ListFlowPage(mac, since, anchor, dir, limit + 1)
        more == Len(found) > limit
        items == Items(found, dir, limit)
        CursorAt(r, d) == [mac |-> mac, window |-> window, since |-> since,
                           limit |-> limit, dir |-> d, anchor |-> r]
    IN  [items |-> items,
         next |-> IF items # <<>> /\ (more \/ dir = "newer")
                  THEN CursorAt(Last(items), "older") ELSE None,
         prev |-> IF items # <<>> /\ (IF dir = "older" THEN anchor # None ELSE more)
                  THEN CursorAt(Head(items), "newer") ELSE None,
         since |-> since, limit |-> limit]

\* A later page never reaches below what window and retention allow by now.
Continuation(c) ==
    FlowPage(c.mac, c.window, Later(c.since, WindowStart(c.window)), c.limit, c.dir, c.anchor)

-----------------------------------------------------------------------------
(* The client, and the writers of the flows table.                          *)

NoWalk == [shown |-> {}, still |-> {}]
Ids(items) == {r.id : r \in ToSet(items)}

Init ==
    /\ now = 0 /\ lastSeen = [f \in FlowIds |-> None]
    /\ page = None /\ fresh = FALSE /\ walk = NoWalk

Tick ==
    /\ now < MaxTime /\ now' = now + 1 /\ fresh' = FALSE
    /\ UNCHANGED <<lastSeen, page, walk>>

\* A walk can only promise something about flows that did not move under it.
Moved(fs) == walk' = [walk EXCEPT !.still = @ \ fs]

\* upsert_flows
Store(f, t) ==
    /\ t <= now /\ t >= now - MaxLag
    /\ lastSeen' = [lastSeen EXCEPT ![f] = t]
    /\ fresh' = FALSE /\ Moved({f})
    /\ UNCHANGED <<now, page>>

\* A deletion (of a device, or of a range of time), or the retention sweep.
Delete(gone) ==
    /\ gone # {} /\ \A f \in gone : lastSeen[f] # None
    /\ lastSeen' = [f \in FlowIds |-> IF f \in gone THEN None ELSE lastSeen[f]]
    /\ fresh' = FALSE /\ Moved(gone)
    /\ UNCHANGED <<now, page>>

FirstPage(mac, window, limit) ==
    /\ ValidLimit(limit)
    /\ page' = FlowPage(mac, window, WindowStart(window), limit, "older", None)
    /\ fresh' = TRUE
    /\ walk' = [shown |-> Ids(page'.items),
                still |-> {f \in FlowIds : lastSeen[f] # None /\ ClientMac[f] = mac}]
    /\ UNCHANGED <<now, lastSeen>>

OlderPage ==
    /\ page # None /\ page.next # None /\ Accepts(page.next.mac, page.next)
    /\ page' = Continuation(page.next)
    /\ fresh' = TRUE
    /\ walk' = IF walk.still = {} THEN NoWalk
               ELSE [walk EXCEPT !.shown = @ \cup Ids(page'.items)]
    /\ UNCHANGED <<now, lastSeen>>

NewerPage ==
    /\ page # None /\ page.prev # None /\ Accepts(page.prev.mac, page.prev)
    /\ page' = Continuation(page.prev)
    /\ fresh' = TRUE /\ walk' = NoWalk
    /\ UNCHANGED <<now, lastSeen>>

Next ==
    \/ Tick
    \/ \E f \in FlowIds, t \in Times : Store(f, t)
    \/ \E gone \in SUBSET FlowIds : Delete(gone)
    \/ \E mac \in Macs, window \in Windows, limit \in Limits : FirstPage(mac, window, limit)
    \/ OlderPage
    \/ NewerPage

Spec == Init /\ [][Next]_vars

-----------------------------------------------------------------------------
(* Properties.                                                              *)

\* State is well formed and no page is longer than asked for.
TypeOK ==
    /\ now \in Times
    /\ lastSeen \in [FlowIds -> Times \cup {None}]
    /\ page \in Page \cup {None}
    /\ page # None => Len(page.items) <= page.limit
    /\ fresh \in BOOLEAN
    /\ walk \in [shown: SUBSET FlowIds, still: SUBSET FlowIds]

\* A cursor the service issued stays good for its device, however long the
\* client keeps it and whatever happened to the row it points at.
IssuedCursorsAccepted ==
    page # None =>
        \A c \in {page.next, page.prev} \ {None} : Accepts(c.mac, c)

\* A page is an unbroken run of the device's flows, newest first, and where it
\* has no further cursor there is nothing further.
PageIsRun ==
    fresh /\ page.items # <<>> =>
        LET items == page.items
            all == Stored(ClientMac[items[1].id], page.since)
        IN  /\ \A i \in 1 .. Len(items) - 1 : Newer(items[i], items[i + 1])
            /\ \A r \in all : Older(r, items[1]) /\ Newer(r, Last(items)) => r \in ToSet(items)
            /\ page.next = None => \A r \in all : ~Older(r, Last(items))
            /\ page.prev = None => \A r \in all : ~Newer(r, items[1])

\* Following the cursor to the older page and from there the cursor back leads
\* to the page the client came from, if nothing was written in between.
ThereAndBack ==
    fresh /\ page.next # None =>
        LET older == Continuation(page.next)
        IN  older.items # <<>> => Continuation(older.prev).items = page.items

\* A walk from the first page along older pages shows no flow that stayed put
\* twice,
NothingTwice ==
    [][OlderPage => Ids(page'.items) \cap walk.shown \cap walk.still = {}]_vars

\* and misses none when it comes to its end.
NothingMissed ==
    page # None /\ page.next = None /\ walk.still # {} =>
        \A f \in walk.still : lastSeen[f] >= page.since => f \in walk.shown
=============================================================================
