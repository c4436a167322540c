----------------------------- MODULE NvsStorage -----------------------------
(***************************************************************************)
(* The NVS library: pages of entries in flash (Page), the list of pages    *)
(* and the freeing of pages (PageManager), items and multi-page blobs      *)
(* (Storage), and what nvs_flash_init makes of a flash that power failed   *)
(* in the middle of any operation.                                         *)
(*                                                                         *)
(* A call runs under the library's lock and depends on the flash alone, so *)
(* it is computed at its start as the list of flash operations it makes;   *)
(* the operations are then steps of their own, and power may fail before,  *)
(* between and within them. Left out: namespaces (one is used), encryption,*)
(* items of the format before multi-page blobs, failing flash operations.  *)
(***************************************************************************)
EXTENDS Integers, SequencesExt, FiniteSetsExt

CONSTANTS
    PageCount,      \* sectors of the partition
    EntryCount,     \* entries of a page
    WordEntries,    \* entries whose states share a word of the table
    MinTail,        \* entries below which a first chunk is not worth writing
    Slots,          \* pairs of key and type the application uses
    Vals,           \* values
    Whole, Rest,    \* entries of a value filled by its data, and 1 when part of one more is
    Blankish,       \* values whose data look like erased flash
    None,
    MaxSets,        \* bound: values set
    MaxFails,       \* bound: losses of power
    MaxBoth         \* bound: values set and losses of power together

ASSUME SizesAssumption ==
    /\ PageCount \in Nat /\ EntryCount \in Nat /\ WordEntries \in Nat \ {0}
    /\ Whole \in [Vals -> Nat] /\ Rest \in [Vals -> {0, 1}]
    /\ None \notin Vals

Pages == 0..(PageCount - 1)
Entries == 0..(EntryCount - 1)
CHUNK_ANY == 255
VER_0_OFFSET == 0
VER_1_OFFSET == 128
VER_ANY == 255
Size(v) == Whole[v] + Rest[v]
NotFound == EntryCount      \* an index no entry has

VARIABLES
    flash,      \* per page: header state, sequence number, entry states, entries
    ram,        \* the lists of pages and the next sequence number
    ops,        \* flash operations the current call has yet to make
    call,       \* the call being served
    done,       \* what the current call leaves in RAM, with its result
    kept,       \* history: what a start of the device would read now
    residue,    \* history: blobs of which a failed set may have left chunks since the start
    spoilt,     \* history: blobs that were set again without a start in between
    sets,       \* values set
    fails       \* losses of power

vars == <<flash, ram, ops, call, done, kept, residue, spoilt, sets, fails>>

-----------------------------------------------------------------------------
(* Flash *)

Blank == [t |-> "blank"]
Junk == [t |-> "junk"]
Item(key, type, chunk, span, val) ==
    [t |-> "item", key |-> key, type |-> type, chunk |-> chunk, span |-> span, val |-> val]
Data(v, n) == [t |-> "data", val |-> <<v, n>>]

ErasedPage ==
    [st |-> "uninit", seq |-> 0,
     tab |-> [i \in Entries |-> "E"], ent |-> [i \in Entries |-> Blank]]

\* A flash operation carried out. Bits are only ever cleared: what is written over something else
\* is neither.
Program(f, op) ==
    CASE op.op = "ent" -> [f EXCEPT ![op.p].ent[op.i] = IF @ = Blank THEN op.e ELSE Junk]
      [] op.op = "tab" -> [f EXCEPT ![op.p].tab = [i \in Entries |-> IF i \in op.s THEN op.to ELSE @[i]]]
      [] op.op = "hdr" -> [f EXCEPT ![op.p].st = "active", ![op.p].seq = op.seq]
      [] op.op = "st" -> [f EXCEPT ![op.p].st = op.to]
      [] op.op = "erase" -> [f EXCEPT ![op.p] = ErasedPage]

\* The same cut off in the middle. A word is written or it is not.
Torn(f, op) ==
    CASE op.op = "ent" -> [f EXCEPT ![op.p].ent[op.i] = Junk]
      [] op.op \in {"hdr", "erase"} -> [f EXCEPT ![op.p].st = "corrupt"]
      [] OTHER -> f

\* F(e) with e evaluated once: TLC would evaluate it at every use of F's parameter.
With(e, F(_)) == CHOOSE z \in {F(y) : y \in {e}} : z = z

FoldOver(Op(_, _), base, seq) ==
    LET f[n \in 0..Len(seq)] ==
            IF n = 0 THEN base ELSE With(f[n - 1], LAMBDA acc : Op(acc, seq[n]))
    IN  f[Len(seq)]

\* d is the library while it computes a call: flash as it will be, lists, operations, result.
Do(d, op) == [d EXCEPT !.f = Program(@, op), !.ops = Append(@, op)]
DoAll(d, todo) == FoldOver(Do, d, todo)

-----------------------------------------------------------------------------
(* Page *)

\* Headers of items: what mHashList holds.
Written(pg) == {i \in Entries : pg.tab[i] = "W" /\ pg.ent[i].t = "item"}
UsedEntries(pg) == {i \in Entries : pg.tab[i] = "W"}
NextFreeEntry(pg) == Max({0} \cup {i + 1 : i \in {j \in Entries : pg.tab[j] # "E"}})

FindItem(pg, key, type, chunk, ver) ==
    LET hits == {i \in Written(pg) :
                    /\ pg.ent[i].key = key
                    /\ pg.ent[i].chunk = chunk
                    /\ type = "idx" /\ ver # VER_ANY => pg.ent[i].val[2] = ver}
    IN  IF pg.st \in {"active", "full", "freeing"} /\ hits # {} /\ pg.ent[Min(hits)].type = type
        THEN Min(hits)
        ELSE NotFound

\* The words of the table are written from the last entry's to the first one's.
AlterEntryRangeState(d, p, s, to) ==
    LET words == SetToSortSeq({i \div WordEntries : i \in s}, >)
    IN  DoAll(d, [n \in DOMAIN words |->
            [op |-> "tab", p |-> p, to |-> to, s |-> {i \in s : i \div WordEntries = words[n]}]])

EraseEntryAndSpan(d, p, i) ==
    LET e == d.f[p].ent[i]
        span == IF d.f[p].tab[i] = "W" /\ e.t = "item" THEN e.span ELSE 1
    IN  AlterEntryRangeState(d, p, i..(i + span - 1), "X")

EraseItem(d, p, key, type, chunk, ver) ==
    LET i == FindItem(d.f[p], key, type, chunk, ver)
    IN  IF i = NotFound THEN d ELSE EraseEntryAndSpan(d, p, i)

WriteEntry(p, i, e) ==
    <<[op |-> "ent", p |-> p, i |-> i, e |-> e], [op |-> "tab", p |-> p, to |-> "W", s |-> {i}]>>

\* The sequence number was given to the page when it was activated: it is the last one given.
Initialize(d, p) ==
    IF d.f[p].st = "uninit" THEN Do(d, [op |-> "hdr", p |-> p, seq |-> d.seq - 1]) ELSE d

CurrentPage(d) == Last(d.list)

\* writeItem: header, then the data's whole entries under one change of the table, then the rest.
\* The data of value v start at its entry off; rest is 1 when the last of them is a partial one.
WriteItem(d0, item, v, off, rest) ==
    LET p == CurrentPage(d0)
        whole == item.span - 1 - rest
        data(next) == [n \in 1..whole |->
                          [op |-> "ent", p |-> p, i |-> next + n, e |-> Data(v, off + n)]]
        last(next) == IF rest = 0 THEN << >>
                      ELSE WriteEntry(p, next + whole + 1, Data(v, off + whole + 1))
        At(d, next) ==
            IF d.f[p].st = "full" \/ next + item.span > EntryCount
            THEN [d EXCEPT !.err = "page_full"]
            ELSE DoAll(AlterEntryRangeState(DoAll(d, WriteEntry(p, next, item) \o data(next)),
                                            p, (next + 1)..(next + whole), "W"),
                       last(next))
    IN  With(Initialize(d0, p), LAMBDA d : With(NextFreeEntry(d.f[p]), LAMBDA n : At(d, n)))

GetVarDataTailroom(pg) ==
    CASE pg.st = "uninit" -> EntryCount - 1
      [] pg.st = "full" -> 0
      [] OTHER -> IF NextFreeEntry(pg) < EntryCount - 1 THEN EntryCount - NextFreeEntry(pg) - 1 ELSE 0

CopyItems(d0, from, to) ==
    LET Copy(src, d, next) ==
            DoAll(d, FlattenSeq([n \in DOMAIN src |->
                WriteEntry(to, next + n - 1, d.f[from].ent[src[n]])]))
    IN  IF UsedEntries(d0.f[from]) = {} THEN d0
        ELSE With(Initialize(d0, to), LAMBDA d :
                Copy(SetToSortSeq(UsedEntries(d.f[from]), <), d, NextFreeEntry(d.f[to])))

MarkFull(d) ==
    IF d.f[CurrentPage(d)].st = "full" THEN d
    ELSE Do(d, [op |-> "st", p |-> CurrentPage(d), to |-> "full"])

-----------------------------------------------------------------------------
(* Page::load: what a page looks like after power failed *)

LooksBlank(e) == \/ e.t = "blank"
                 \/ e.t = "data" /\ e.val[1] \in Blankish

\* Entries written whose state was not: from the first empty one on, up to one that looks blank.
HalfWritten(pg) ==
    LET first == Min({i \in Entries : pg.tab[i] = "E"} \cup {EntryCount})
    IN  {i \in first..(EntryCount - 1) : \A j \in first..i : ~LooksBlank(pg.ent[j])}

EraseHalfWritten(d, p) ==
    LET half == SetToSortSeq(HalfWritten(d.f[p]), <)
    IN  DoAll(d, [n \in DOMAIN half |-> [op |-> "tab", p |-> p, to |-> "X", s |-> {half[n]}]])

\* One turn of the loop over the items of an active page: an item cut short goes, and so does the
\* earlier one of two for the same key.
CheckItem(p, acc, i) ==
    LET pg == acc.d.f[p]
        e == pg.ent[i]
        whole == \A j \in i..(i + e.span - 1) : pg.tab[j] = "W"
        same == {j \in Written(pg) : j <= i /\ pg.ent[j].key = e.key /\ pg.ent[j].chunk = e.chunk}
    IN  IF i < acc.skip \/ pg.tab[i] = "X" THEN acc
        ELSE IF e.t # "item" THEN [acc EXCEPT !.d = EraseEntryAndSpan(@, p, i)]
        ELSE [d |-> IF ~whole THEN EraseEntryAndSpan(acc.d, p, i)
                    ELSE IF Min(same) < i THEN EraseEntryAndSpan(acc.d, p, Min(same))
                    ELSE acc.d,
              skip |-> i + e.span]

LoadActive(d0, p) ==
    LET d == EraseHalfWritten(d0, p)
        end == Min({i \in Entries : d.f[p].tab[i] = "E"} \cup {EntryCount})
        Check(acc, i) == CheckItem(p, acc, i)
    IN  FoldOver(Check, [d |-> d, skip |-> 0], [i \in 1..end |-> i - 1]).d

\* Pages that are not written any more: only items of which a part is missing go.
LoadFull(d, p) ==
    LET Check(acc, i) ==
            LET pg == acc.d.f[p]
                e == pg.ent[i]
            IN  IF i < acc.skip \/ pg.tab[i] # "W" THEN acc
                ELSE IF e.t # "item" THEN [acc EXCEPT !.d = EraseEntryAndSpan(@, p, i)]
                ELSE [d |-> IF \A j \in i..(i + e.span - 1) : pg.tab[j] = "W" THEN acc.d
                            ELSE EraseEntryAndSpan(acc.d, p, i),
                      skip |-> i + e.span]
    IN  FoldOver(Check, [d |-> d, skip |-> 0], [i \in 1..EntryCount |-> i - 1]).d

-----------------------------------------------------------------------------
(* PageManager *)

ActivatePage(d) ==
    LET p == Head(d.free)
        e == IF d.f[p].st = "corrupt" THEN Do(d, [op |-> "erase", p |-> p]) ELSE d
    IN  [e EXCEPT !.free = Tail(@), !.list = Append(@, p), !.seq = @ + 1]

\* Mutant: the page is erased before its items are copied.
FreePage_EraseFirst(d, p) ==
    LET e == CopyItems(Do(d, [op |-> "erase", p |-> p]), p, CurrentPage(d))
    IN  [e EXCEPT !.list = SelectSeq(@, LAMBDA q : q # p), !.free = Append(@, p)]

\* Move what a page still holds to the current one, erase it, and count it among the free pages.
FreePage(d, p) ==
    LET e == Do(CopyItems(d, p, CurrentPage(d)), [op |-> "erase", p |-> p])
    IN  [e EXCEPT !.list = SelectSeq(@, LAMBDA q : q # p), !.free = Append(@, p)]

\* The page to free: the first with the fewest entries in use.
Victim(d) ==
    LET used(n) == Cardinality(UsedEntries(d.f[d.list[n]]))
    IN  d.list[Min({n \in DOMAIN d.list : \A m \in DOMAIN d.list : used(n) <= used(m)})]

RequestNewPage(d) ==
    IF d.free = << >> THEN [d EXCEPT !.err = "invalid_state"]
    ELSE IF Len(d.free) >= 2 THEN ActivatePage(d)
    ELSE IF UsedEntries(d.f[Victim(d)]) = Entries THEN [d EXCEPT !.err = "no_space"]
    ELSE FreePage(Do(ActivatePage(d), [op |-> "st", p |-> Victim(d), to |-> "freeing"]), Victim(d))

InsertBySeq(d, p) ==
    LET n == Cardinality({m \in DOMAIN d.list : d.f[d.list[m]].seq <= d.f[p].seq})
    IN  [d EXCEPT !.list = InsertAt(@, n + 1, p)]

LoadPage(d, p) ==
    CASE d.f[p].st = "active" -> InsertBySeq(LoadActive(d, p), p)
      [] d.f[p].st \in {"full", "freeing"} -> InsertBySeq(LoadFull(d, p), p)
      [] OTHER -> [d EXCEPT !.free = Append(@, p)]

\* Power went out after an item was written and before the older one was erased: the last item of
\* the last page is looked for in the pages before it.
EraseDuplicate(d) ==
    LET items == Written(d.f[CurrentPage(d)])
        e == d.f[CurrentPage(d)].ent[Max(items)]
        older == {n \in 1..(Len(d.list) - 1) :
                    /\ d.f[d.list[n]].st # "freeing"
                    /\ FindItem(d.f[d.list[n]], e.key, e.type, e.chunk, VER_ANY) # NotFound}
    IN  IF items = {} \/ older = {} THEN d
        ELSE EraseItem(d, d.list[Min(older)], e.key, e.type, e.chunk, VER_ANY)

\* Power went out while a page was being freed: the half-filled new page goes, and the freeing is
\* done again.
FinishFreeing(d) ==
    LET freeing == {n \in DOMAIN d.list : d.f[d.list[n]].st = "freeing"}
        new == CurrentPage(d)
        e == IF d.f[new].st = "active"
             THEN [Do(d, [op |-> "erase", p |-> new]) EXCEPT !.list = Front(@), !.free = Append(@, new)]
             ELSE d
    IN  IF freeing = {} THEN d ELSE FreePage(ActivatePage(e), d.list[Min(freeing)])

-----------------------------------------------------------------------------
(* Storage *)

BlobIndices(f, list) ==
    {e \in UNION {{f[p].ent[i] : i \in Written(f[p])} : p \in Range(list)} : e.type = "idx"}

Orphan(e, indices) ==
    /\ e.type = "data"
    /\ ~\E x \in indices : x.key = e.key /\ e.chunk \in x.val[2]..(x.val[2] + x.val[1] - 1)

\* Data of blobs that no index speaks of.
EraseOrphanDataBlobs(d) ==
    LET indices == BlobIndices(d.f, d.list)
        OnPage(acc, p) ==
            LET orphans == SetToSortSeq({i \in Written(acc.f[p]) : Orphan(acc.f[p].ent[i], indices)}, <)
                Erase(a, i) == EraseItem(a, p, a.f[p].ent[i].key, "data", a.f[p].ent[i].chunk, VER_ANY)
            IN  FoldOver(Erase, acc, orphans)
    IN  FoldOver(OnPage, d, d.list)

\* nvs_flash_init.
Load(f) ==
    LET blank == [f |-> f, list |-> << >>, free |-> << >>, seq |-> 0, ops |-> << >>, err |-> "ok"]
        Repair(d) == FinishFreeing(EraseDuplicate([d EXCEPT !.seq = d.f[CurrentPage(d)].seq + 1]))
    IN  With(FoldOver(LoadPage, blank, [n \in 1..PageCount |-> n - 1]), LAMBDA d :
            IF d.list = << >> THEN ActivatePage(d)
            ELSE With(Repair(d), LAMBDA e :
                    IF e.free = << >> THEN [e EXCEPT !.err = "no_free_pages"]
                    ELSE EraseOrphanDataBlobs(e)))

\* The page that holds an item, -1 when none does.
FindPage(d, key, type, chunk, ver) ==
    LET on == {n \in DOMAIN d.list : FindItem(d.f[d.list[n]], key, type, chunk, ver) # NotFound}
    IN  IF on = {} THEN 0 - 1 ELSE d.list[Min(on)]

FoundItem(d, key, type, chunk, ver) ==
    LET p == FindPage(d, key, type, chunk, ver)
    IN  d.f[p].ent[FindItem(d.f[p], key, type, chunk, ver)]

\* The entries of data behind a header, when they are what its checksum was computed from.
ChunkData(d, key, type, chunk) ==
    LET p == FindPage(d, key, type, chunk, VER_ANY)
        i == FindItem(d.f[p], key, type, chunk, VER_ANY)
        e == d.f[p].ent[i]
    IN  IF p < 0 THEN << >>
        ELSE IF \A n \in 1..(e.span - 1) : d.f[p].ent[i + n] = Data(e.val[1], e.val[2] + n)
        THEN [n \in 1..(e.span - 1) |-> d.f[p].ent[i + n]]
        ELSE << >>

\* readItem with readMultiPageBlob: the value read, None when there is none.
ReadItem(d, s) ==
    LET header == IF s.type = "blob" THEN "idx" ELSE s.type
        Bytes(e) == IF s.type # "blob" THEN ChunkData(d, s.key, s.type, CHUNK_ANY)
                    ELSE FlattenSeq([n \in 1..e.val[1] |->
                            ChunkData(d, s.key, "data", e.val[2] + n - 1)])
        Value(data) == LET read == {v \in Vals : data = [n \in 1..Size(v) |-> Data(v, n)]}
                       IN  IF read = {} THEN None ELSE CHOOSE v \in read : TRUE
    IN  IF FindPage(d, s.key, header, CHUNK_ANY, VER_ANY) < 0 THEN None
        ELSE With(FoundItem(d, s.key, header, CHUNK_ANY, VER_ANY), LAMBDA e :
                IF s.type = "int" THEN e.val[1] ELSE With(Bytes(e), Value))

\* eraseMultiPageBlob: the index first, then its chunks.
EraseMultiPageBlob(d, key, ver) ==
    LET Chunk(acc, c) == LET q == FindPage(acc, key, "data", c, VER_ANY)
                         IN  IF q < 0 THEN acc ELSE EraseItem(acc, q, key, "data", c, VER_ANY)
        ChunksOf(x) == [n \in 1..x.val[1] |-> x.val[2] + n - 1]
    IN  With(FindPage(d, key, "idx", CHUNK_ANY, ver), LAMBDA p :
            IF p < 0 THEN [d EXCEPT !.err = "not_found"]
            ELSE FoldOver(Chunk, EraseItem(d, p, key, "idx", CHUNK_ANY, ver),
                          ChunksOf(FoundItem(d, key, "idx", CHUNK_ANY, ver))))

\* One turn of the loop of writeMultiPageBlob: b holds the call's local variables.
WriteChunk(b, turn) ==
    LET d == b.d
        page == CurrentPage(d)
        left == Size(b.v) - b.off
        index == Item(b.key, "idx", CHUNK_ANY, 1, <<Len(b.pages) + 1, b.start, Size(b.v)>>)
        Stop(e) == [b EXCEPT !.d = e, !.end = TRUE]
        \* The first chunk would be too small: on to a new page.
        Fresh(room) == With(RequestNewPage(MarkFull(d)), LAMBDA e :
            IF e.err # "ok" THEN Stop(e)
            ELSE IF GetVarDataTailroom(e.f[CurrentPage(e)]) = room
                 THEN Stop([e EXCEPT !.err = "no_space"])
            ELSE [b EXCEPT !.d = e])
        Put(size) ==
            WriteItem(d, Item(b.key, "data", b.start + Len(b.pages), 1 + size, <<b.v, b.off>>),
                      b.v, b.off, IF size = left THEN Rest[b.v] ELSE 0)
        Chunk(room, size) ==
            With(IF left > size \/ room = size THEN RequestNewPage(MarkFull(Put(size))) ELSE Put(size),
                 LAMBDA e : [b EXCEPT
                    !.off = @ + size, !.pages = Append(@, page),
                    !.d = IF e.err = "ok" /\ size = left THEN WriteItem(e, index, b.v, 0, 0) ELSE e,
                    !.end = e.err # "ok" \/ size = left])
    IN  IF b.end THEN b
        ELSE With(GetVarDataTailroom(d.f[page]), LAMBDA room :
            IF b.pages = << >> /\ room < Size(b.v) /\ room < MinTail THEN Fresh(room)
            ELSE IF room = 0 THEN Stop([d EXCEPT !.err = "no_space"])
            ELSE Chunk(room, IF left > room THEN room ELSE left))

\* What a failed write of a blob erases: on each page used, the chunk numbered as if the version
\* began at 0.
CleanUp(b) ==
    LET Erase(acc, n) == EraseItem(acc, b.pages[n], b.key, "data", n - 1, VER_ANY)
    IN  IF b.d.err = "ok" THEN b.d ELSE FoldOver(Erase, b.d, [n \in DOMAIN b.pages |-> n])

WriteMultiPageBlob(d, key, v, start) ==
    CleanUp(FoldOver(WriteChunk,
                     [d |-> d, key |-> key, v |-> v, start |-> start, off |-> 0,
                      pages |-> << >>, end |-> FALSE],
                     [n \in 1..(PageCount + 1) |-> n]))

\* writeItem of a blob: the new version beside the old one, then the old one goes.
SetBlob(d, key, v) ==
    LET old == FindPage(d, key, "idx", CHUNK_ANY, VER_ANY) >= 0
        prev == FoundItem(d, key, "idx", CHUNK_ANY, VER_ANY).val[2]
        start == IF old /\ prev = VER_0_OFFSET THEN VER_1_OFFSET ELSE VER_0_OFFSET
    IN  IF Size(v) > (PageCount - 1) * (EntryCount - 1) THEN [d EXCEPT !.err = "too_long"]
        ELSE With(WriteMultiPageBlob(d, key, v, start), LAMBDA new :
                IF new.err # "ok" \/ ~old THEN new ELSE EraseMultiPageBlob(new, key, prev))

\* The current page or, when that has no room, a new one.
PutItem(d, s, v) ==
    LET item == IF s.type = "int" THEN Item(s.key, "int", CHUNK_ANY, 1, <<v, 0>>)
                ELSE Item(s.key, s.type, CHUNK_ANY, 1 + Size(v), <<v, 0>>)
        Write(e) == WriteItem(e, item, v, 0, IF s.type = "int" THEN 0 ELSE Rest[v])
        Again(page) == IF page.err # "ok" THEN page
                       ELSE With(Write(page), LAMBDA e : IF e.err = "ok" THEN e
                                                         ELSE [e EXCEPT !.err = "no_space"])
    IN  With(Write(d), LAMBDA put :
            IF put.err = "ok" THEN put
            ELSE With(RequestNewPage(MarkFull([put EXCEPT !.err = "ok"])), Again))

\* Mutant: the freeing of a page is taken to leave the old item where it was.
SetItem_NotMoved(d, s, v) ==
    LET found == FindPage(d, s.key, s.type, CHUNK_ANY, VER_ANY)
    IN  With(PutItem(d, s, v), LAMBDA new :
            IF new.err # "ok" \/ found < 0 THEN new
            ELSE EraseItem(new, found, s.key, s.type, CHUNK_ANY, VER_ANY))

\* writeItem of anything but a blob; then the item found before goes, wherever the freeing of a
\* page has moved it to.
SetItem(d, s, v) ==
    LET found == FindPage(d, s.key, s.type, CHUNK_ANY, VER_ANY)
        Home(new) == IF new.f[found].st = "uninit"
                     THEN FindPage(new, s.key, s.type, CHUNK_ANY, VER_ANY) ELSE found
    IN  With(PutItem(d, s, v), LAMBDA new :
            IF new.err # "ok" \/ found < 0 THEN new
            ELSE With(Home(new), LAMBDA p : EraseItem(new, p, s.key, s.type, CHUNK_ANY, VER_ANY)))

\* Nothing is written when the value is there already.
Set(d, s, v) ==
    IF ReadItem(d, s) = v THEN d
    ELSE IF s.type = "blob" THEN SetBlob(d, s.key, v)
    ELSE SetItem(d, s, v)

Erase(d, s) ==
    LET p == FindPage(d, s.key, s.type, CHUNK_ANY, VER_ANY)
    IN  IF s.type = "blob" THEN EraseMultiPageBlob(d, s.key, VER_ANY)
        ELSE IF p < 0 THEN [d EXCEPT !.err = "not_found"]
        ELSE EraseItem(d, p, s.key, s.type, CHUNK_ANY, VER_ANY)

\* eraseNamespace: page by page, item by item.
EraseAll(d) ==
    LET OnPage(acc, p) ==
            LET EraseAt(a, i) == EraseEntryAndSpan(a, p, i)
            IN  FoldOver(EraseAt, acc, SetToSortSeq(Written(acc.f[p]), <))
    IN  FoldOver(OnPage, d, d.list)

-----------------------------------------------------------------------------
(* Calls and power *)

Idle == [op |-> "none"]
Boot == [op |-> "boot"]
Now == [f |-> flash, list |-> ram.list, free |-> ram.free, seq |-> ram.seq, ops |-> << >>, err |-> "ok"]

ReadAll(d) == [s \in Slots |-> ReadItem(d, s)]
Contents(f) == With(Load(f), ReadAll)

\* The call c starts, which will come out as result.
Begin(c, result) ==
    /\ call' = c
    /\ \E d \in {result} :
        /\ ops' = d.ops
        /\ done' = [list |-> d.list, free |-> d.free, seq |-> d.seq, err |-> d.err]

\* Before the library is initialised there are no lists.
NoLists == [list |-> << >>, free |-> << >>, seq |-> 0]

Init ==
    /\ flash = [p \in Pages |-> ErasedPage]
    /\ ram = NoLists
    /\ call = Boot
    /\ residue = {} /\ spoilt = {} /\ sets = 0 /\ fails = 0
    /\ kept = Contents(flash)
    /\ \E d \in {Load(flash)} :
            ops = d.ops /\ done = [list |-> d.list, free |-> d.free, seq |-> d.seq, err |-> d.err]

NvsSet(s, v) ==
    /\ call = Idle
    /\ sets < MaxSets /\ sets + fails < MaxBoth /\ sets' = sets + 1
    /\ Begin([op |-> "set", slot |-> s, v |-> v], Set(Now, s, v))
    /\ spoilt' = spoilt \cup (residue \cap {s})
    /\ UNCHANGED <<flash, ram, kept, residue, fails>>

NvsErase(s) ==
    /\ call = Idle
    /\ Begin([op |-> "erase", slot |-> s], Erase(Now, s))
    /\ UNCHANGED <<flash, ram, kept, residue, spoilt, sets, fails>>

NvsEraseAll ==
    /\ call = Idle
    /\ Begin([op |-> "erase_all"], EraseAll(Now))
    /\ UNCHANGED <<flash, ram, kept, residue, spoilt, sets, fails>>

FlashStep ==
    /\ ops # << >>
    /\ \E f \in {Program(flash, Head(ops))} : flash' = f /\ kept' = Contents(f)
    /\ ops' = Tail(ops)
    /\ UNCHANGED <<ram, call, done, residue, spoilt, sets, fails>>

\* A call that fails keeps the lists as it left them.
Return ==
    /\ call # Idle /\ ops = << >>
    /\ done.err # "no_free_pages"
    /\ ram' = [list |-> done.list, free |-> done.free, seq |-> done.seq]
    /\ call' = Idle
    /\ done' = [done EXCEPT !.err = "ok"]
    /\ residue' = IF call.op = "set" /\ call.slot.type = "blob" /\ done.err # "ok" THEN residue \cup {call.slot}
                  ELSE residue
    /\ UNCHANGED <<flash, ops, kept, spoilt, sets, fails>>

\* What is in RAM is lost. The device starts again and initialises the library, which may be cut off as well.
PowerFail ==
    /\ fails < MaxFails /\ sets + fails < MaxBoth /\ fails' = fails + 1
    /\ \E f \in {flash} \cup {Torn(flash, ops[n]) : n \in {1} \cap DOMAIN ops} :
       \E d \in {Load(f)} :
        /\ flash' = f /\ kept' = ReadAll(d)
        /\ Begin(Boot, d)
    /\ ram' = NoLists /\ residue' = {}
    /\ UNCHANGED <<spoilt, sets>>

Next ==
    \/ \E s \in Slots : NvsErase(s) \/ \E v \in Vals : NvsSet(s, v)
    \/ NvsEraseAll \/ FlashStep \/ Return \/ PowerFail

Spec == Init /\ [][Next]_vars

-----------------------------------------------------------------------------
(* Properties *)

\* README.rst, line 61: power may fail "at any point and time" and nothing is lost but "the new
\* key-value pair if it was being written". What a start of the device would read changes only in
\* the one step in which a call takes effect, and only for the pair the call is about, the spoilt
\* blobs excepted.
Kv == INSTANCE KvStore WITH store <- kept, err <- done.err, void <- spoilt
PowerFailureSafe == Kv!Spec

\* What the application reads is what a start of the device would read, a set that returned without
\* an error has stored its value (nvs_storage.cpp:266-374), and, as Storage::debugCheck and
\* PageManager::load want it, when a call has returned no item is there twice and there is always a
\* free page to move items to, after every loss of power too. The exception are blobs that are set
\* again, without a start in between, after a set of them failed: the chunks that CleanUp missed
\* are then taken for the new ones. Every other pair stays right beside such a blob.
Acknowledged ==
    /\ done.err # "no_free_pages"
    /\ ops = << >> /\ call.op = "set" /\ done.err = "ok" =>
            call.slot \in spoilt \/ ReadItem([Now EXCEPT !.list = done.list], call.slot) = call.v
    /\ call = Idle =>
        /\ \A s \in Slots \ spoilt : ReadItem(Now, s) = kept[s]
        /\ ram.free # << >>
        /\ \A p, q \in Range(ram.list) : \A i \in Written(flash[p]), j \in Written(flash[q]) :
            LET a == flash[p].ent[i]
                b == flash[q].ent[j]
            IN  <<a.key, a.type, a.chunk>> = <<b.key, b.type, b.chunk>> =>
                    <<p, i>> = <<q, j>> \/ \E s \in spoilt : s.key = a.key

=============================================================================
