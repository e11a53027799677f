------------------------------- MODULE Paging -------------------------------
(***************************************************************************)
(* Lists in pages: GET /api/guilds and GET .../modules/jointocreate, with  *)
(* internal/api/pagination.  A client asks for a page and follows          *)
(* next_offset until has_more is false, while rows come and go.            *)
(*                                                                         *)
(* A page is two statements, a count and a query with LIMIT and OFFSET.    *)
(* Guilds are sorted by created_at, latest first, and by nothing else:     *)
(* those of the same time come in any order, and in another one with the   *)
(* next query.  created_at is when the transaction began, so a row can     *)
(* also come in behind a later one.  Guilds are never deleted.  Parent     *)
(* channels are not sorted at all.  Both handlers have the same steps;     *)
(* "list" tells which one is asked.                                        *)
(***************************************************************************)
EXTENDS Integers, FiniteSets, Sequences, SequencesExt

CONSTANTS
    MaxRows,                   \* rows ever inserted
    DefaultLimit, MaxLimit,
    MaxInt,                    \* math.MaxInt32
    MaxInitial,                \* rows at the start
    MaxFaults,                 \* statements that fail
    MaxTime                    \* times a guild may be created at

ASSUME LimitsAssumption ==
    /\ DefaultLimit \in 1..MaxLimit /\ MaxLimit \in 1..MaxInt /\ MaxInt \in Nat
    /\ MaxRows \in 0..MaxInt /\ MaxInitial \in 0..MaxRows /\ MaxFaults \in Nat
    /\ MaxTime \in Nat

Lists == {"guilds", "parents"}

\* What a query parameter may hold: -1 for a negative number, for what Atoi
\* refuses and for none, MaxInt + 1 for what is past an int32.
Numbers == -1..(MaxInt + 1)

VARIABLES
    list,      \* the list that is walked
    rows,      \* the table, as sorted: rows are numbered as they come
    created,   \* created_at of each row, the same one for all parents
    made,      \* rows so far
    pc,        \* "ask", "count", "page", "done"
    query,     \* the query string: limit and offset
    total,     \* result of the count
    listed,    \* rows the client has got
    repeated,  \* those it has got twice
    pages,     \* how many pages it has got, 2 for more
    faults,    \* statements that have failed
    refused,   \* requests answered with a server error
    stayed,    \* history: rows behind the first offset since the walk began
    grown,     \* history: a row was inserted since then
    raced      \* history: one since the last count

table   == <<rows, created, made>>
client  == <<listed, repeated, pages>>
history == <<stayed, grown, raced>>
vars    == <<list, table, pc, query, total, client, faults, refused, history>>

Times == IF list = "guilds" THEN 1..MaxTime ELSE {0}

\* ORDER BY created_at DESC
Sorted == \A i, j \in DOMAIN rows : i < j => created[rows[i]] >= created[rows[j]]

\* The orders a query may return the rows in: those of one time change places.
Orders == {order \in SetToSeqs(ToSet(rows)) :
              \A i \in DOMAIN rows : created[order[i]] = created[rows[i]]}

Init ==
    /\ list \in Lists
    /\ made \in 0..MaxInitial /\ rows = [i \in 1..made |-> made + 1 - i]
    /\ created \in [1..made -> Times] /\ Sorted
    /\ pc = "ask" /\ query \in [limit: Numbers, offset: Numbers]
    /\ total = 0 /\ listed = {} /\ repeated = {} /\ pages = 0
    /\ faults = 0 /\ refused = 0
    /\ stayed = {} /\ grown = FALSE /\ raced = FALSE

-----------------------------------------------------------------------------
(* ParseQuery and NewResponse.                                             *)

ParseLimit(n) ==
    IF n > 0 /\ n <= MaxInt THEN IF n > MaxLimit THEN MaxLimit ELSE n
                            ELSE DefaultLimit

\* Faulty variant: a negative offset is taken.
ParseOffsetNegative(n) == IF n <= MaxInt THEN n ELSE 0

ParseOffset(n) == IF n >= 0 /\ n <= MaxInt THEN n ELSE 0

Limit  == ParseLimit(query.limit)
Offset == ParseOffset(query.offset)

\* SafeInt32
InInt32(n) == n >= -(MaxInt + 1) /\ n <= MaxInt

\* Faulty variant: the last page is taken to begin one row later.
HasMoreLate == total > Offset + Limit + 1

HasMore == total > Offset + Limit

\* Faulty variants: the last row again; the same page again.
NextOffsetShort == Offset + Limit - 1
NextOffsetSame  == Offset

NextOffset == Offset + Limit

\* LIMIT and OFFSET of a query whose rows come in this order.
Page(order) == {order[i] : i \in (Offset + 1)..(Offset + Limit) \cap DOMAIN order}

-----------------------------------------------------------------------------
(* The handler.                                                            *)

\* 500: the client asks again.
Refuse ==
    /\ pc' = "ask" /\ refused' = refused + 1
    /\ UNCHANGED <<list, table, query, total, client, history>>

\* The walk is over the rows behind its first offset when they are counted.
Began  == pages = 0
Behind == {rows[i] : i \in {j \in DOMAIN rows : j > Offset}}

\* The parameters are converted, the rows counted.
Count ==
    /\ pc = "ask"
    /\ IF InInt32(Limit) /\ InInt32(Offset)
       THEN /\ pc' = "page"
            /\ total' = Len(rows)
            /\ stayed'  = IF Began THEN Behind ELSE stayed
            /\ grown'   = IF Began THEN FALSE ELSE grown
            /\ raced'   = FALSE
            /\ UNCHANGED <<list, table, query, client, faults, refused>>
       ELSE Refuse /\ UNCHANGED faults

\* The page is fetched and sent; the client follows next_offset, or has done.
List ==
    /\ pc = "page"
    /\ \E order \in Orders :
        /\ listed' = listed \cup Page(order)
        /\ repeated' = repeated \cup (Page(order) \cap listed)
    /\ pages' = IF pages = 2 THEN 2 ELSE pages + 1
    /\ IF HasMore
       THEN pc' = "ask" /\ query' = [query EXCEPT !.offset = NextOffset]
       ELSE pc' = "done" /\ UNCHANGED query
    /\ UNCHANGED <<list, table, total, faults, refused, history>>

\* A statement fails.
Fault ==
    /\ pc \in {"ask", "page"} /\ faults < MaxFaults
    /\ faults' = faults + 1
    /\ Refuse

-----------------------------------------------------------------------------
(* Other requests and the bot.                                             *)

\* UpsertGuild, CreateJTCParentChannel
Insert ==
    /\ pc # "done" /\ made < MaxRows
    /\ made' = made + 1
    /\ \E t \in Times, i \in 1..(Len(rows) + 1) :
          /\ \A j \in DOMAIN rows : j < i <=> created[rows[j]] > t
          /\ rows' = InsertAt(rows, i, made')
          /\ created' = [n \in 1..made' |-> IF n = made' THEN t ELSE created[n]]
    /\ grown' = TRUE /\ raced' = (raced \/ pc = "page")
    /\ UNCHANGED <<list, pc, query, total, client, faults, refused, stayed>>

\* DeleteJTCParentChannel
Delete(i) ==
    /\ pc # "done" /\ list = "parents"
    /\ rows' = RemoveAt(rows, i)
    /\ stayed' = stayed \ {rows[i]}
    /\ UNCHANGED <<list, created, made, pc, query, total, client, faults, refused,
                   grown, raced>>

Walk == Count \/ List \/ Fault

Next == Walk \/ Insert \/ \E i \in DOMAIN rows : Delete(i)

Spec == Init /\ [][Next]_vars

\* The client goes on and statements return.
FairSpec == Spec /\ WF_vars(Walk)

-----------------------------------------------------------------------------

\* Among the rest: whatever limit and offset the client writes into the query,
\* the parameters it ends up with fit into an int32, and only the database fails
\* a request.
TypeOK ==
    /\ list \in Lists /\ pc \in {"ask", "page", "done"}
    /\ made \in 0..MaxRows /\ ToSet(rows) \subseteq 1..made
    /\ Cardinality(ToSet(rows)) = Len(rows) /\ created \in [1..made -> Times]
    /\ query \in [limit: Numbers, offset: Numbers]
    /\ Limit \in 1..MaxLimit /\ Offset \in 0..MaxInt
    /\ total \in 0..MaxRows /\ pages \in 0..2 /\ faults \in 0..MaxFaults
    /\ listed \subseteq 1..made /\ repeated \subseteq listed /\ stayed \subseteq 1..made
    /\ {grown, raced} \subseteq BOOLEAN
    /\ refused \in 0..faults

\* A guild that shares its created_at with no other: the only ones whose place
\* in the list is certain.
Alone(r) == list = "guilds" /\ \A s \in ToSet(rows) : created[s] = created[r] => s = r

\* The client has got everything in one page, from the first row on.
OnePage == pages = 1 /\ Offset = 0

\* A client that has walked to the end has got every row behind the offset it
\* began with that was there throughout, however many came meanwhile, unless
\* one came between the last count and its page (that one pushes the last row
\* off the page).  This holds of guilds that share their created_at with no
\* other one, and of any row of a list that fits into one page.
Complete == pc = "done" /\ ~raced =>
    \A r \in stayed : Alone(r) \/ OnePage => r \in listed

\* While no guild joins, it gets none twice, but those that share their
\* created_at.
NoRepeats == \A r \in repeated : Alone(r) => grown

\* The walk ends.
WalkEnds == <>(pc = "done")
=============================================================================
