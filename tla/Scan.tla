-------------------------------- MODULE Scan --------------------------------
(***************************************************************************)
(* One search (combined_search): the facts that LexicalSearch finds, the   *)
(* scan of the journal, which keeps the best rows and the short rows next  *)
(* to them as it reads (search/journal.rs), and the ranking of both        *)
(* (search/rerank.rs, search/laya.rs).                                     *)
(*                                                                         *)
(* A row of the journal is [id, seq, score, len, dotted, passes]: its      *)
(* event id, its sequence number, what score_text gives it for the query,  *)
(* its characters, whether its text ends in an ellipsis, and whether it    *)
(* passes the filters.  Rows come in the order of the day files, which is  *)
(* not the order of their sequence numbers.                                *)
(***************************************************************************)
EXTENDS Naturals, SequencesExt, FiniteSetsExt

CONSTANTS
    RowKinds,       \* the rows there can be, without their sequence numbers
    FactLists,      \* the eligible facts, as [key, score, passes], in tree order
    PageLimit,      \* rows that the caller asks for
    RerankPool,     \* rows in the pool at least, when there is a ranker: 20
    SiblingsPerId,  \* short rows kept for one event id: 8
    SiblingsOnPage, \* short rows added to the hits: 2
    SiblingMax,     \* characters of a short row at most: 2000
    KeptChars,      \* characters that are kept of a row: 2048
    Acknowledges,   \* a row shorter than this is no turn: 16
    RecentShorts,   \* short rows remembered before their id is in a hit: 256
    JevLeaders,     \* leaders that JEV judges: 5
    JevCap,         \* rows that JEV judges at most: 8
    MaxRows         \* bound on the rows of the journal

ASSUME ScanAssumption ==
    /\ \A n \in {PageLimit, RerankPool, SiblingsPerId, RecentShorts, JevLeaders, JevCap} : n \in Nat \ {0}
    /\ \A n \in {SiblingsOnPage, SiblingMax, KeptChars, Acknowledges, MaxRows} : n \in Nat
    /\ \A k \in RowKinds : k.score \in Nat /\ k.len \in Nat
    /\ \A list \in FactLists : /\ list \in Seq(ToSet(list))
                               /\ \A f \in ToSet(list) : f.score \in Nat

(* A fact has the hash of its text as its key, and it is in one file only  *)
(* (FactOnce of Curation).                                                 *)
ASSUME FactsOnce ==
    \A list \in FactLists : \A i, j \in DOMAIN list : i # j => list[i].key # list[j].key

VARIABLES
    search,  \* what is asked: [facts, rerank, factsOnly]
    stage,   \* "scan", "rank", "done" or "failed"
    scanned, \* the rows read so far
    heap,    \* the best of them
    tracked, \* the event ids in the heap
    shorts,  \* the short rows kept for each of these ids
    recent,  \* the last short rows
    found,   \* what the scan returned
    page     \* the answer

scanVars == <<search, stage, scanned, heap, tracked, shorts, recent, found, page>>

-----------------------------------------------------------------------------
(* Rows *)

Ids == {k.id : k \in RowKinds}

Rows == {[id |-> k.id, seq |-> n, score |-> k.score, len |-> k.len,
          dotted |-> k.dotted, passes |-> k.passes] : k \in RowKinds, n \in 1 .. MaxRows}

IdsOf(rows) == {r.id : r \in rows}

(* The order of RankedHit: the higher score, then the lower number. *)
HitBeats(r, s) == r.score > s.score \/ (r.score = s.score /\ r.seq < s.seq)

EntersTop(rows, r, cap) ==
    Cardinality(rows) < cap \/ \E worst \in rows : HitBeats(r, worst)

Worst(rows) == {w \in rows : \A s \in rows \ {w} : HitBeats(s, w)}

(* Mutant: the heap pops the oldest of the worst rows. *)
PushTopOldest(rows, r, cap) ==
    (IF Cardinality(rows) >= cap
     THEN rows \ {w \in rows : \A s \in rows \ {w} :
                      s.score > w.score \/ (s.score = w.score /\ s.seq > w.seq)}
     ELSE rows) \cup {r}

PushTop(rows, r, cap) ==
    (IF Cardinality(rows) >= cap THEN rows \ Worst(rows) ELSE rows) \cup {r}

IsShort(r) == r.len <= SiblingMax

(* What is left of a row in the list of hits: the text that was cut off,   *)
(* or one that ends so by itself.                                          *)
CutOff(r) == r.len > KeptChars \/ r.dotted

-----------------------------------------------------------------------------
(* Lists *)

(* The members of S, in the order whose pairs are in before.               *)
Listed(S, before) ==
    [n \in 1 .. Cardinality(S) |-> CHOOSE x \in S : Cardinality({y \in S : <<y, x>> \in before}) = n - 1]

Rising(S) == {pair \in S \X S : pair[1] < pair[2]}

(* The members of a list at the places in S. *)
ListAt(list, S) ==
    LET place == Listed(S, Rising(S))
    IN  [n \in DOMAIN place |-> list[place[n]]]

FirstOf(list, n) == SubSeq(list, 1, Min({n, Len(list)}))

-----------------------------------------------------------------------------
(* The short rows that are kept of an id, or as the last ones, are sets: a *)
(* short row knows at which row of the journal it was read, and that is    *)
(* its turn among rows of one length in a list that is sorted by length.   *)

ShortHit(r) == [id |-> r.id, seq |-> r.seq, score |-> 0, len |-> r.len, at |-> Len(scanned) + 1]

Shorter(r, s) == r.len < s.len \/ (r.len = s.len /\ r.at < s.at)

(* Sorted by length and truncated. *)
Shortest(rows) == {r \in rows : Cardinality({s \in rows : Shorter(s, r)}) < SiblingsPerId}

Remember(rows, r) ==
    IF \E s \in rows : s.seq = r.seq THEN rows ELSE Shortest(rows \cup {r})

(* Mutant: the short rows just before a new hit are not looked at. *)
NoteTrackedLate(top) ==
    [i \in Ids |-> IF i \in IdsOf(top) /\ i \in tracked THEN shorts[i] ELSE {}]

(* note_tracked: what is kept for the ids in the heap; an id that is new   *)
(* among them starts with the recent rows.  They are remembered one by     *)
(* one, which leaves the shortest of them.                                 *)
NoteTracked(top) ==
    [i \in Ids |->
        IF i \notin IdsOf(top) THEN {}
        ELSE IF i \in tracked THEN shorts[i]
        ELSE Shortest({s \in recent : s.id = i})]

KeepShort(kept, r, ids) ==
    IF IsShort(r) /\ r.id \in ids THEN [kept EXCEPT ![r.id] = Remember(@, ShortHit(r))] ELSE kept

(* A queue of a fixed length. *)
Latest(rows) == {r \in rows : Cardinality({s \in rows : s.at > r.at}) < RecentShorts}

PushRecent(r) == IF IsShort(r) THEN Latest(recent \cup {ShortHit(r)}) ELSE recent

-----------------------------------------------------------------------------
(* The scan *)

Pool == IF search.rerank THEN Max({PageLimit, RerankPool}) ELSE PageLimit

NoShorts == [i \in Ids |-> {}]

NothingRead ==
    /\ scanned = <<>> /\ heap = {} /\ tracked = {}
    /\ shorts = NoShorts /\ recent = {}

ScanInit ==
    /\ search \in [facts : FactLists, rerank : BOOLEAN, factsOnly : BOOLEAN]
    /\ stage = IF search.factsOnly THEN "rank" ELSE "scan"
    /\ NothingRead
    /\ found = <<>> /\ page = <<>>

ReadsRow(r) ==
    /\ stage = "scan"
    /\ Len(scanned) < MaxRows
    /\ \A s \in ToSet(scanned) : s.seq # r.seq
    /\ scanned' = Append(scanned, r)
    /\ UNCHANGED <<search, stage, found, page>>

Filtered(r) ==
    /\ ReadsRow(r)
    /\ ~r.passes
    /\ UNCHANGED <<heap, tracked, shorts, recent>>

IsRanked(r) == r.passes /\ r.score > 0 /\ EntersTop(heap, r, Pool)

Ranked(r) ==
    /\ ReadsRow(r)
    /\ IsRanked(r)
    /\ heap' = PushTop(heap, r, Pool)
    /\ tracked' = IdsOf(heap')
    /\ shorts' = KeepShort(NoteTracked(heap'), r, tracked')
    /\ recent' = PushRecent(r)

Unranked(r) ==
    /\ ReadsRow(r)
    /\ r.passes /\ ~IsRanked(r)
    /\ shorts' = KeepShort(shorts, r, tracked)
    /\ recent' = PushRecent(r)
    /\ UNCHANGED <<heap, tracked>>

HitsInOrder == Listed(heap, {pair \in heap \X heap : HitBeats(pair[1], pair[2])})

(* Which of the first three hits are cut-off rows of this id. *)
Leading(hits, i) == {n \in DOMAIN FirstOf(hits, 3) : hits[n].id = i /\ CutOff(hits[n])}

(* The rows kept for these ids that are turns of their own and no hits,    *)
(* the shorter first, then those of the better hit.                        *)
Siblings(hits) ==
    LET extra == {s \in UNION {shorts[i] : i \in Ids} :
                    /\ Leading(hits, s.id) # {}
                    /\ s.len >= Acknowledges /\ \A h \in heap : h.seq # s.seq}
        leader(s) == Min(Leading(hits, s.id))
        isAhead(s, t) == \/ s.len < t.len
                         \/ s.len = t.len /\ leader(s) < leader(t)
                         \/ s.len = t.len /\ s.id = t.id /\ s.at < t.at
    IN  FirstOf(Listed(extra, {pair \in extra \X extra : isAhead(pair[1], pair[2])}), SiblingsOnPage)

(* The journal ends, or the writer of its last rows leaves a line that     *)
(* does not parse, which ends the search.                                  *)
EndOfScan ==
    /\ stage = "scan"
    /\ stage' = "rank"
    /\ found' = HitsInOrder \o Siblings(HitsInOrder)
    /\ scanned' = <<>> /\ heap' = {} /\ tracked' = {}
    /\ shorts' = NoShorts /\ recent' = {}
    /\ UNCHANGED <<search, page>>

BadLine ==
    /\ stage = "scan"
    /\ stage' = "failed"
    /\ scanned' = <<>> /\ heap' = {} /\ tracked' = {}
    /\ shorts' = NoShorts /\ recent' = {}
    /\ UNCHANGED <<search, found, page>>

-----------------------------------------------------------------------------
(* The ranking.  A row of a page is [side, key, score]. *)

(* The members of a list at the places in S: a stable sort, the highest    *)
(* score first.                                                            *)
BestAt(list, S) ==
    LET isAbove(i, j) == list[i].score > list[j].score \/ (list[i].score = list[j].score /\ i < j)
        place == Listed(S, {pair \in S \X S : isAbove(pair[1], pair[2])})
    IN  [n \in DOMAIN place |-> list[place[n]]]

ByScore(list) == BestAt(list, DOMAIN list)

Matching(list) == ListAt(list, {i \in DOMAIN list : list[i].score > 0})

(* LexicalSearch: the facts that match, best first. *)
FactsFound ==
    LET facts == [i \in DOMAIN search.facts |->
                    [side |-> "fact", key |-> search.facts[i].key, score |-> search.facts[i].score]]
        match == {i \in DOMAIN facts : facts[i].score > 0}
    IN  FirstOf(BestAt(facts, match), IF search.rerank THEN 20 ELSE Min({PageLimit, 20}))

(* Of these, those of the project and the sources that are asked for: the  *)
(* others have taken their places all the same.                            *)
FactHits ==
    LET passing == {f.key : f \in {f \in ToSet(search.facts) : f.passes}}
    IN  ListAt(FactsFound, {i \in DOMAIN FactsFound : FactsFound[i].key \in passing})

(* Short rows stay only for a ranker to judge. *)
EventHits ==
    LET events == [i \in DOMAIN found |-> [side |-> "event", key |-> found[i].seq, score |-> found[i].score]]
    IN  IF search.rerank THEN events ELSE Matching(events)

(* A fact, an event, a fact, and so on. *)
Baseline ==
    LET facts == FactHits
        events == EventHits
        turns == ((DOMAIN facts) \X {1}) \cup ((DOMAIN events) \X {2})
        isBefore(s, t) == s[1] < t[1] \/ (s[1] = t[1] /\ s[2] < t[2])
        turn == Listed(turns, {pair \in turns \X turns : isBefore(pair[1], pair[2])})
    IN  [n \in DOMAIN turn |->
            IF turn[n][2] = 1 THEN facts[turn[n][1]] ELSE events[turn[n][1]]]

(* jev_pool: the leaders, then short rows. *)
JevPool ==
    LET base == Baseline
        leaders == FirstOf(Matching(base), JevLeaders)
        rest == ListAt(base, {i \in DOMAIN base : base[i].score = 0})
    IN  IF leaders = <<>> THEN FirstOf(base, JevCap)
        ELSE leaders \o FirstOf(rest, IF JevCap > Len(leaders) THEN JevCap - Len(leaders) ELSE 0)

RowId(h) == <<h.side, h.key>>

Scored(list, scores) == [i \in DOMAIN list |-> [list[i] EXCEPT !.score = scores[i]]]

(* Mutant: the page is what JEV judged. *)
JevPageOnly(scores) == FirstOf(ByScore(Scored(JevPool, scores)), PageLimit)

(* The judged rows by their scores, then the others in their order. *)
JevPage(scores) ==
    LET base == Baseline
        pool == JevPool
        judged == {RowId(h) : h \in ToSet(pool)}
        others == ListAt(base, {i \in DOMAIN base : RowId(base[i]) \notin judged})
    IN  FirstOf(ByScore(Scored(pool, scores)) \o others, PageLimit)

LayaPage(scores) == FirstOf(ByScore(Scored(Baseline, scores)), PageLimit)

Answers(rows) ==
    /\ stage = "rank"
    /\ stage' = "done"
    /\ page' = rows
    /\ UNCHANGED <<search, scanned, heap, tracked, shorts, recent, found>>

(* No ranker: the short rows are dropped. *)
Plain ==
    /\ ~search.rerank
    /\ Answers(FirstOf(Matching(Baseline), PageLimit))

(* MEM_RERANK=off, or neither ranker is there, or both decline or fail. *)
FallThrough == search.rerank /\ Answers(FirstOf(Baseline, PageLimit))

(* A row that JEV gives no score has zero. *)
Jev ==
    /\ search.rerank /\ Baseline # <<>>
    /\ \E scores \in [DOMAIN JevPool -> 0 .. 1] : Answers(JevPage(scores))

(* Laya declines when it scores every row near zero. *)
Laya ==
    /\ search.rerank /\ Baseline # <<>>
    /\ \E scores \in [DOMAIN Baseline -> 0 .. 1] :
        /\ 1 \in {scores[i] : i \in DOMAIN scores}
        /\ Answers(LayaPage(scores))

ScanNext ==
    \/ \E r \in Rows : Filtered(r) \/ Ranked(r) \/ Unranked(r)
    \/ EndOfScan \/ BadLine
    \/ Plain \/ FallThrough \/ Jev \/ Laya

ScanSpec == ScanInit /\ [][ScanNext]_scanVars

-----------------------------------------------------------------------------
(* Properties *)

ShortRow(r) == \E s \in Rows, n \in 1 .. MaxRows :
    r = [id |-> s.id, seq |-> s.seq, score |-> 0, len |-> s.len, at |-> n]

PageRow(h) == h.side \in {"fact", "event"} /\ h.score \in Nat

(* The types, and that each bound of the scan holds. *)
ScanTypeOK ==
    /\ stage \in {"scan", "rank", "done", "failed"}
    /\ ToSet(scanned) \subseteq Rows /\ Len(scanned) <= MaxRows
    /\ heap \subseteq Rows /\ Cardinality(heap) <= Pool
    /\ tracked = IdsOf(heap)
    /\ \A i \in Ids : /\ Cardinality(shorts[i]) <= SiblingsPerId
                      /\ \A r \in shorts[i] : ShortRow(r) /\ r.id = i
    /\ Cardinality(recent) <= RecentShorts /\ \A r \in recent : ShortRow(r)
    /\ Len(found) <= Pool + SiblingsOnPage
    /\ \A h \in ToSet(page) : PageRow(h)

Candidates == {r \in ToSet(scanned) : r.passes /\ r.score > 0}

(* While the journal is read, in whatever order its days hold the rows,    *)
(* the heap is the best rows so far: no row is left out that beats one     *)
(* that is kept, and none while there is room (enters_top, push_top and    *)
(* the order of RankedHit agree with the sort of heap_to_vec).             *)
ScanIsTop ==
    /\ heap \subseteq Candidates
    /\ \A r \in Candidates \ heap :
        /\ Cardinality(heap) = Pool
        /\ \A h \in heap : HitBeats(h, r)

(* The last short rows that were read. *)
LastShorts ==
    LET places == {i \in DOMAIN scanned : scanned[i].passes /\ IsShort(scanned[i])}
    IN  {scanned[i] : i \in {i \in places : Cardinality({j \in places : j > i}) < RecentShorts}}

(* A short row within the last ones that shares its id with a hit is kept  *)
(* for this id whichever of both came first, and also when the id had left *)
(* the heap in between; unless its place is taken by others that are no    *)
(* longer (note_tracked, remember_short).                                  *)
SiblingsKept ==
    \A r \in LastShorts :
        r.id \in IdsOf(heap) =>
            \/ \E s \in shorts[r.id] : s.seq = r.seq
            \/ /\ Cardinality(shorts[r.id]) = SiblingsPerId
               /\ \A s \in shorts[r.id] : s.len <= r.len

(* Whichever ranker answers, or none: the page is as full as the caller    *)
(* asked for, as far as the rows go that the filters leave of each side's  *)
(* best; no row is on it twice, and a page without a judge shows both      *)
(* sides when it has room and both found something (combined_search,       *)
(* JevRerankAdapter::rerank).                                              *)
PageIsFull ==
    stage = "done" =>
        LET matched == IF search.rerank THEN Baseline ELSE Matching(Baseline)
            sides == {h.side : h \in ToSet(page)}
        IN  /\ Len(page) = Min({PageLimit, Len(matched)})
            /\ \A i, j \in DOMAIN page :
                i # j => RowId(page[i]) # RowId(page[j])
            /\ ~search.rerank /\ PageLimit > 1 /\ FactHits # <<>> /\ EventHits # <<>>
                => sides = {"fact", "event"}
=============================================================================
