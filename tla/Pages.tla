------------------------------- MODULE Pages -------------------------------
(***************************************************************************)
(* The board and the search of internal/httpapi, page by page: a client      *)
(* walks a listing of events with the cursor of each page while ingest adds, *)
(* moves and ends events. A page is one statement; the key of an event is    *)
(* its scheduled start and its identifier.                                  *)
(*                                                                         *)
(* A listing is what the client asks for: the endpoint, the events its       *)
(* league or its prefix selects, and starting_before.                       *)
(***************************************************************************)
EXTENDS Naturals, FiniteSets

CONSTANTS
    Fixtures,       \* identifiers, in their order
    StartTimes,         \* scheduled starts
    Listings,       \* [endpoint, selects, before]: before is a start, Default or Endless
    Default,        \* starting_before is left out: now + defaultBoardHorizon
    Endless,        \* the search has no window
    Horizon,
    Sizes,          \* limit, which may be another for every page
    MaxInstant,        \* bound of the clock
    MaxEdits,       \* bound: writes of ingest
    NoCursor

ASSUME PagesAssumption ==
    /\ Fixtures \subseteq Nat /\ IsFiniteSet(Fixtures) /\ StartTimes \subseteq Nat
    /\ \A l \in Listings : l.selects \subseteq Fixtures
    /\ Sizes \subseteq Nat \ {0}
    /\ Horizon \in Nat /\ MaxInstant \in Nat /\ MaxEdits \in Nat
    /\ NoCursor \notin Nat \X Nat
    /\ NoCursor \notin [key : Nat \X Nat,
                        scope : {l.endpoint : l \in Listings} \X {l.selects : l \in Listings}
                                  \X (Nat \cup {l.before : l \in Listings})]

VARIABLES
    instant,
    fixture,    \* event -> [start, status]
    edits,
    listing,    \* what is walked
    pageCursor,     \* the cursor of the page before, or NoCursor
    walk        \* "start", "under way", "done" or "refused"

\* History: what every page showed; events no edit touched since the first page; the
\* scopes the pages were of; the client changed the listing on its way.
VARIABLES shown, steady, scopes, changed

pageVars == <<instant, fixture, edits, listing, pageCursor, walk, shown, steady, scopes, changed>>

Statuses == {"scheduled", "live", "suspended", "over"}

\* (scheduled_start, id) > (after_start, after_id)
Follows(k, j) == k[1] > j[1] \/ (k[1] = j[1] /\ k[2] > j[2])
KeyOf(f) == <<fixture[f].start, f>>

-----------------------------------------------------------------------------
(* One page *)

\* Every filter of the four board statements and the two of the search.
InListing(l, before) ==
    {f \in l.selects :
        /\ fixture[f].status \in (IF l.endpoint = "board" THEN {"scheduled", "live", "suspended"}
                                    ELSE {"scheduled", "live"})
        /\ before # Endless => fixture[f].start < before}

\* Variant: by the start alone.
After_Start(S, key) == IF key = NoCursor THEN S ELSE {f \in S : fixture[f].start > key[1]}

After(S, key) == IF key = NoCursor THEN S ELSE {f \in S : Follows(KeyOf(f), key)}

\* ORDER BY scheduled_start, id LIMIT size.
FirstOf(S, size) ==
    {f \in S : Cardinality({g \in S : Follows(KeyOf(f), KeyOf(g))}) < size}
LastOf(S) == CHOOSE f \in S : \A g \in S : ~Follows(KeyOf(g), KeyOf(f))

\* One row more than the page was asked for.
\* Variant: only as many as the page.
HasMore_Full(S, size) == Cardinality(FirstOf(S, size)) > size

HasMore(S, size) == Cardinality(FirstOf(S, size + 1)) > size

WindowOf(l) == IF l.before = Default THEN instant + Horizon ELSE l.before
Scope(l, window) == <<l.endpoint, l.selects, window>>

\* Variant: the scope of the cursor is not looked at.
Accepted_Any(c, scope) == TRUE

\* decodeCursor.
Accepted(c, scope) == c = NoCursor \/ c.scope = scope

\* The request the client makes next: with the cursor of the page before.
Asks(l, size) ==
    LET window == WindowOf(l)
        rest == After(InListing(l, window), IF pageCursor = NoCursor THEN NoCursor ELSE pageCursor.key)
        page == FirstOf(rest, size) IN
    IF ~Accepted(pageCursor, Scope(l, window))
      THEN /\ walk' = "refused"
           /\ UNCHANGED <<pageCursor, shown, scopes>>
      ELSE /\ shown' = [f \in Fixtures |-> IF f \in page THEN shown[f] + 1 ELSE shown[f]]
           /\ scopes' = scopes \cup {Scope(l, window)}
           /\ IF HasMore(rest, size)
                THEN /\ walk' = "under way"
                     /\ pageCursor' = [key |-> KeyOf(LastOf(page)), scope |-> Scope(l, window)]
                ELSE /\ walk' = "done"
                     /\ UNCHANGED pageCursor

GetsPage(size) ==
    /\ walk \in {"start", "under way"}
    /\ Asks(listing, size)
    /\ steady' = IF walk = "start" THEN Fixtures ELSE steady
    /\ UNCHANGED <<instant, fixture, edits, listing, changed>>

\* The cursor with another listing: a client's mistake.
ChangesListing(l) ==
    /\ walk = "under way"
    /\ l # listing
    /\ listing' = l
    /\ changed' = TRUE
    /\ UNCHANGED <<instant, fixture, edits, pageCursor, walk, shown, steady, scopes>>

-----------------------------------------------------------------------------
(* What goes on meanwhile *)

\* ingest writes an event: it appears, moves, or changes its status.
Edits(f) ==
    /\ edits < MaxEdits
    /\ edits' = edits + 1
    /\ \E s \in StartTimes, status \in Statuses :
        /\ [start |-> s, status |-> status] # fixture[f]
        /\ fixture' = [fixture EXCEPT ![f] = [start |-> s, status |-> status]]
    /\ steady' = steady \ {f}
    /\ UNCHANGED <<instant, listing, pageCursor, walk, shown, scopes, changed>>

TimePasses ==
    /\ instant < MaxInstant
    /\ instant' = instant + 1
    /\ UNCHANGED <<fixture, edits, listing, pageCursor, walk, shown, steady, scopes, changed>>

\* An event that is not there yet is over, for the walk.
PagesInit ==
    /\ instant = 0
    /\ fixture \in [Fixtures -> [start : StartTimes, status : {"scheduled", "over"}]]
    /\ edits = 0
    /\ listing \in Listings
    /\ pageCursor = NoCursor
    /\ walk = "start"
    /\ shown = [f \in Fixtures |-> 0]
    /\ steady = Fixtures
    /\ scopes = {}
    /\ changed = FALSE

PagesNext ==
    \/ \E size \in Sizes : GetsPage(size)
    \/ \E l \in Listings : ChangesListing(l)
    \/ \E f \in Fixtures : Edits(f)
    \/ TimePasses

PagesSpec == PagesInit /\ [][PagesNext]_pageVars

-----------------------------------------------------------------------------
(* Properties *)

PagesTypeOK ==
    /\ walk \in {"start", "under way", "done", "refused"}
    /\ walk = "under way" => pageCursor # NoCursor
    /\ \A f \in Fixtures : fixture[f].start \in StartTimes /\ fixture[f].status \in Statuses

\* Events that are in the set that is walked, and were all along.
Standing == {f \in steady : \E w \in scopes : f \in InListing(listing, w[3])}

\* Whatever ingest adds, moves and ends between two pages, and whatever sizes the
\* pages have, an event that stays where it is comes on exactly one page of the walk:
\* none of the events that come and go pushes it over a boundary.
EachOnce ==
    (~changed /\ walk \in {"under way", "done"}) =>
        \A f \in Standing :
            shown[f] = IF walk = "done" \/ ~Follows(KeyOf(f), pageCursor.key) THEN 1 ELSE 0

\* All the pages of a walk are of one set: a cursor with another listing is refused.
OneSet == Cardinality(scopes) <= 1

\* With a window of the client's own the cursor is good at any later time, whatever the
\* size of the page.
WindowKeeps == (~changed /\ listing.before # Default) => walk # "refused"

PagesCorrect == PagesTypeOK /\ EachOnce /\ OneSet /\ WindowKeeps

\* "Pass [PageInfo.NextCursor] back as [GetBoardParams.Cursor] and change nothing
\* else": a client that does gets the next page. Does not hold: starting_before left
\* out is now + defaultBoardHorizon, another instant and so another scope at every
\* request.
CursorAccepted == ~changed => walk # "refused"
=============================================================================
