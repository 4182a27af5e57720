---------------------------- MODULE ResultStore ----------------------------
(***************************************************************************)
(* Large tool results: the store that keeps them within its budgets, with  *)
(* the indexes of their JSON arrays that are built outside its lock        *)
(* (presentation/result_store.py, result_json.py), and the tools that read *)
(* them back page by page (result_tools.py).                               *)
(*                                                                         *)
(* A stored result is an id with the generation of the entry object.  Sizes*)
(* are abstract; an index costs the same in both budgets.                  *)
(***************************************************************************)
EXTENDS Naturals, Sequences, FiniteSets, FiniteSetsExt, SequencesExt

CONSTANTS
  Bytes,        \* cache_size_bytes of each result
  Memory,       \* memory_size_bytes of each result
  IndexSize,    \* the size of the index of each path
  MaxEntries, MaxBytes, MaxMemory,   \* the store's budgets
  Readers,      \* threads that use the store
  MaxAdds,      \* bound on the entries made
  Texts,        \* the stored results a client reads page by page
  Budget        \* what a page may cost

ASSUME ResultAssumption ==
  /\ \A r \in DOMAIN Bytes : Bytes[r] \in Nat /\ Memory[r] \in Nat
  /\ DOMAIN Memory = DOMAIN Bytes
  /\ MaxEntries \in Nat \ {0} /\ MaxBytes \in Nat \ {0} /\ MaxMemory \in Nat \ {0}

VARIABLES
  store,     \* entries from the least to the most recently used, indexes, counters
  reader,    \* each client's json_index call: the entry it holds and its step
  made,      \* entries made so far
  pages      \* a client that reads one result page by page

resultVars == <<store, reader, made, pages>>

Results == DOMAIN Bytes
Paths == DOMAIN IndexSize
NoReader == [pc |-> "idle", entry |-> <<>>, path |-> 0]

EntryIds(entries) == {entries[i].id : i \in DOMAIN entries}
Entry(entries, r) == CHOOSE e \in Range(entries) : e.id = r
MovedToEnd(entries, r) == Append(SelectSeq(entries, LAMBDA e : e.id # r), Entry(entries, r))

Kept(s, r) == {k \in s.indexes : k[1] = r}
IndexBytes(keys) == FoldSet(LAMBDA k, n : n + IndexSize[k[2]], 0, keys)

-----------------------------------------------------------------------------
(* The store                                                               *)

WithoutDropped(s, r) ==
  [entries |-> SelectSeq(s.entries, LAMBDA e : e.id # r),
   indexes |-> s.indexes \ Kept(s, r),
   bytes |-> s.bytes - Bytes[r] - IndexBytes(Kept(s, r)),
   memory |-> s.memory - Memory[r] - IndexBytes(Kept(s, r))]

OverBudget(s) == Len(s.entries) > MaxEntries \/ s.bytes > MaxBytes \/ s.memory > MaxMemory

\* The least recently used goes first, the given one never.
Evicted(s, r) ==
  LET evict[n \in Nat, t \in {s} \cup [entries : Seq(Range(s.entries)), indexes : SUBSET s.indexes,
                                        bytes : Nat, memory : Nat]] ==
        IF n = 0 \/ ~OverBudget(t) THEN t
        ELSE evict[n - 1, WithoutDropped(t, SelectSeq(t.entries, LAMBDA e : e.id # r)[1].id)]
  IN  evict[Len(s.entries) - 1, s]

Fits(r) == Bytes[r] <= MaxBytes /\ Memory[r] <= MaxMemory

Added(s, r) ==
  IF r \in EntryIds(s.entries) THEN [s EXCEPT !.entries = MovedToEnd(@, r)]
  ELSE IF ~Fits(r) THEN s
  ELSE Evicted([s EXCEPT !.entries = Append(@, [id |-> r, gen |-> made]),
                         !.bytes = @ + Bytes[r], !.memory = @ + Memory[r]], r)

Add(r) ==
  /\ made < MaxAdds
  /\ store' = Added(store, r) /\ made' = made + 1
  /\ UNCHANGED <<reader, pages>>

Get(c, r, path) ==
  /\ reader[c].pc = "idle" /\ r \in EntryIds(store.entries)
  /\ store' = [store EXCEPT !.entries = MovedToEnd(@, r)]
  /\ reader' = [reader EXCEPT ![c] = [pc |-> "got", entry |-> Entry(store.entries, r), path |-> path]]
  /\ UNCHANGED <<made, pages>>

Proceed(c, pc) == reader' = [reader EXCEPT ![c].pc = pc]
PutDown(c) == reader' = [reader EXCEPT ![c] = NoReader]

\* An index that is there is used; otherwise one is built, without the lock.
LookUpIndex(c) ==
  /\ reader[c].pc = "got"
  /\ IF <<reader[c].entry.id, reader[c].path>> \in store.indexes THEN PutDown(c) ELSE Proceed(c, "building")
  /\ UNCHANGED <<store, made, pages>>

\* Mutant: an index is booked for whatever has that id, or nothing, by then.
AnyEntry(s, e) == TRUE

SameEntry(s, e) == e \in Range(s.entries)

Booked(s, r, path) ==
  [s EXCEPT !.indexes = @ \cup {<<r, path>>},
            !.bytes = @ + IndexSize[path], !.memory = @ + IndexSize[path]]

IndexFits(s, r, path) ==
  LET more == IndexBytes(Kept(s, r)) + IndexSize[path]
  IN  Bytes[r] + more <= MaxBytes /\ Memory[r] + more <= MaxMemory

\* The spans of the items, unless the text is malformed or they are too many.
BuildIndex(c) ==
  /\ reader[c].pc = "building"
  /\ Proceed(c, "built") \/ PutDown(c)
  /\ UNCHANGED <<store, made, pages>>

BookIndex(c) ==
  /\ reader[c].pc = "built"
  /\ LET e == reader[c].entry
         r == e.id
     IN  store' = IF /\ SameEntry(store, e)
                     /\ <<r, reader[c].path>> \notin store.indexes
                     /\ IndexFits(store, r, reader[c].path)
                  THEN Evicted(Booked(store, r, reader[c].path), r) ELSE store
  /\ PutDown(c)
  /\ UNCHANGED <<made, pages>>

-----------------------------------------------------------------------------
(* Reading page by page.  A text is the sequence of its characters' costs, *)
(* an array that of its items' costs; a pattern gives at each position the *)
(* ends of its matches there, in the order in which the engine tries them. *)

Cost(costs, from, n) == FoldSeq(LAMBDA x, y : x + y, 0, SubSeq(costs, from + 1, from + n))

\* The longest prefix that fits is found by halving, when the whole does not fit.
Fitted(costs, from, n) ==
  LET half[low \in 0..n, high \in 0..n] ==
        IF low >= high THEN low
        ELSE LET middle == (low + high + 1) \div 2
             IN  IF Cost(costs, from, middle) <= Budget THEN half[middle, high] ELSE half[low, middle - 1]
  IN  IF Cost(costs, from, n) <= Budget THEN n ELSE half[0, n - 1]

\* Where the engine finds the next match from a position; right after an empty
\* match only a longer one may start there.
NextMatch(pattern, from, notEmpty) ==
  LET ends(p) == SelectSeq(pattern[p], LAMBDA e : ~(notEmpty /\ p = from /\ e = p))
      starts == {p \in DOMAIN pattern : p >= from /\ ends(p) # <<>>}
  IN  IF starts = {} THEN <<>> ELSE <<Min(starts), ends(Min(starts))[1]>>

\* All matches of a scan that starts anew at a position.
Scan(pattern, from) ==
  LET scan[p \in Nat, notEmpty \in BOOLEAN] ==
        LET m == NextMatch(pattern, p, notEmpty)
        IN  IF m = <<>> THEN <<>> ELSE <<m>> \o scan[m[2], m[1] = m[2]]
  IN  scan[from, FALSE]

\* Mutant: a scan that resumes after an empty match shows it again.
NothingSkipped(matches, at, skip) == matches

\* A cursor after an empty match skips that match when the scan repeats it.
Resumed(matches, at, skip) ==
  IF skip /\ matches # <<>> /\ matches[1] = <<at, at>> THEN Tail(matches) ELSE matches

Matches == Resumed(Scan(pages.data, pages.at), pages.at, pages.skip)

ReadText ==
  /\ pages.mode = "text" /\ ~pages.done
  /\ \E limit \in 1..2 :
       LET n == Fitted(pages.data, pages.at, IF limit < Len(pages.data) - pages.at THEN limit
                                             ELSE Len(pages.data) - pages.at)
       IN  pages' = [pages EXCEPT !.at = @ + n, !.shown = @ \o SubSeq(pages.data, pages.at + 1, pages.at + n),
                                  !.done = pages.at + n >= Len(pages.data)]
  /\ UNCHANGED <<store, reader, made>>

\* Rows are taken while they fit; a row that does not fit alone is skipped, and
\* the page names it.
ReadItems ==
  /\ pages.mode = "json" /\ ~pages.done
  /\ \E limit \in 1..2 :
       LET fitting == {n \in 0..limit : /\ pages.at + n <= Len(pages.data)
                                        /\ \A m \in 1..n : Cost(pages.data, pages.at, m) <= Budget}
           n == Max(fitting)
           next == IF n = 0 THEN pages.at + 1 ELSE pages.at + n
       IN  pages' = [pages EXCEPT !.at = next, !.shown = @ \o SubSeq(pages.data, pages.at + 1, next),
                                  !.done = next >= Len(pages.data)]
  /\ UNCHANGED <<store, reader, made>>

\* A page of a search shows at least one of the matches it found; its cursor
\* names the end of the last one shown.  A scan that does not count may stop at
\* the last match without knowing it was the last.
ReadMatches ==
  /\ pages.mode = "search" /\ ~pages.done
  /\ IF Matches = <<>> THEN pages' = [pages EXCEPT !.done = TRUE]
     ELSE \E n \in 1..Len(Matches), counted \in BOOLEAN :
            LET last == Matches[n]
            IN  pages' = [pages EXCEPT !.at = last[2], !.skip = last[1] = last[2],
                            !.shown = @ \o SubSeq(Matches, 1, n), !.done = counted /\ n = Len(Matches)]
  /\ UNCHANGED <<store, reader, made>>

ResultInit ==
  /\ store = [entries |-> <<>>, indexes |-> {}, bytes |-> 0, memory |-> 0]
  /\ reader = [c \in Readers |-> NoReader]
  /\ made = 0
  /\ \E t \in Texts : pages = [mode |-> t.mode, data |-> t.data, at |-> 0, skip |-> FALSE,
                               shown |-> <<>>, done |-> t.data = <<>>]

ResultNext ==
  \/ \E r \in Results : Add(r)
  \/ \E c \in Readers, r \in Results, path \in Paths : Get(c, r, path)
  \/ \E c \in Readers : LookUpIndex(c) \/ BuildIndex(c) \/ BookIndex(c)
  \/ ReadText \/ ReadItems \/ ReadMatches

ResultSpec == ResultInit /\ [][ResultNext]_resultVars

-----------------------------------------------------------------------------
(* Properties                                                              *)

\* The counters are what the kept results and their indexes cost, and never
\* more than the budgets, although an index is booked long after its entry was
\* looked up; no index outlives its entry (result_store.py:262-290).
StoreIsAccounted ==
  /\ store.indexes \subseteq Results \X Paths
  /\ ~OverBudget(store)
  /\ \A k \in store.indexes : k[1] \in EntryIds(store.entries)
  /\ Cardinality(EntryIds(store.entries)) = Len(store.entries)
  /\ store.bytes = IndexBytes(store.indexes) + FoldSet(LAMBDA r, n : n + Bytes[r], 0, EntryIds(store.entries))
  /\ store.memory = IndexBytes(store.indexes) + FoldSet(LAMBDA r, n : n + Memory[r], 0, EntryIds(store.entries))

\* What a client has read by following the offsets and cursors of its pages is
\* what one page without limits would show, nothing twice and nothing left out
\* (result_tools.py:366-371: "page with offset_chars/limit_chars until has_more
\* is false", "next_cursor resumes after returned matches").
PagesAreTheResult ==
  LET whole == IF pages.mode = "search" THEN Scan(pages.data, 0) ELSE pages.data
  IN  IsPrefix(pages.shown, whole) /\ (pages.done => pages.shown = whole)

\* What is kept is accounted for, and what is read page by page is all of it.
StoreInvariant == StoreIsAccounted /\ PagesAreTheResult
=============================================================================
