---------------------------- MODULE PostingsFile ----------------------------
(***************************************************************************)
(* The file of position_postings.cpp: delta-coded posting blocks, game     *)
(* metadata, compressed directory blocks and a sparse directory over them. *)
(* A section is a sequence of cells; a fixed-width field or a bitmap bit   *)
(* takes one cell, a uleb128 number one cell per digit.  PayloadBase       *)
(* (2^7 in the code), LowBase (2^40) and BlockEntries (256) are parameters *)
(* so that small instances have numbers of several digits, hash deltas     *)
(* above the low part and directories of several blocks.                   *)
(***************************************************************************)
EXTENDS GameReplay

CONSTANTS PayloadBase, LowBase, BlockEntries

ASSUME PostingsFileAssumption ==
    /\ PayloadBase \in Nat /\ PayloadBase > 1
    /\ LowBase \in Nat /\ LowBase > 1
    /\ BlockEntries \in Nat /\ BlockEntries > 0

HeaderSize == 88
MetadataRecordSize == 10
SparseRecordSize == 22
UlebMaxBytes == 10
MaxUint16 == 65535

Upto(n) == [i \in 1..n |-> i]
Bit(condition) == IF condition THEN 1 ELSE 0

-----------------------------------------------------------------------------
(* Numbers *)

(* write_uleb128(): digits from the least, all but the last flagged. *)
Uleb[value \in Nat] ==
    IF value < PayloadBase THEN <<value>>
    ELSE <<(value % PayloadBase) + PayloadBase>> \o Uleb[value \div PayloadBase]

(* The number some digits stand for; overlong and non-minimal encodings    *)
(* are refused.                                                             *)
DigitsValue(digits) == FoldRight(LAMBDA d, v : v * PayloadBase + (d % PayloadBase), digits, 0)
ReadDigits(digits, value, end) ==
    [ok |-> Len(digits) <= UlebMaxBytes /\ Uleb[value] = digits, value |-> value, next |-> end]

(* read_uleb128() after `used` cells. *)
ReadUleb(cells, used) ==
    LET ends == {i \in (used + 1)..Len(cells) : cells[i] < PayloadBase}
        Digits(end) == SubSeq(cells, used + 1, end)
        Read(end) == ReadDigits(Digits(end), DigitsValue(Digits(end)), end)
    IN  IF ends = {} THEN [ok |-> FALSE, value |-> 0, next |-> used] ELSE Read(Min(ends))

(* n numbers one after the other. *)
ReadUlebs(cells, used, n) ==
    LET Extend(st, one) == [ok |-> st.ok /\ one.ok, next |-> one.next,
                            values |-> Append(st.values, one.value)]
        Read(st, i) == Extend(st, ReadUleb(cells, st.next))
    IN  FoldLeft(Read, [ok |-> TRUE, next |-> used, values |-> <<>>], Upto(n))

-----------------------------------------------------------------------------
(* Writing: the merge loop of merge_runs() *)

(* The streaming state: cells written, directory entries pending for the   *)
(* next block, blocks spooled, and the hash and game being accumulated.    *)
EmptyWriter ==
    [postings |-> <<>>, pending |-> <<>>, spool |-> <<>>, sparse |-> <<>>,
     hashes |-> 0, occurrences |-> 0,
     has_hash |-> FALSE, hash |-> 0, offset |-> 0, count |-> 0, games |-> 0,
     min_ply |-> 0, max_ply |-> 0,
     has_game |-> FALSE, game |-> 0, flushed |-> FALSE, previous |-> 0, plies |-> <<>>]

(* flush_game_group(): id delta, number of plies, first ply, ply deltas. *)
FlushGameGroup(w) ==
    IF ~w.has_game THEN w
    ELSE LET delta == IF w.flushed THEN w.game - w.previous ELSE w.game
             gaps == [i \in 1..(Len(w.plies) - 1) |-> Uleb[w.plies[i + 1] - w.plies[i]]]
         IN  [w EXCEPT !.postings = @ \o Uleb[delta] \o Uleb[Len(w.plies)]
                                      \o Uleb[w.plies[1]] \o FlattenSeq(gaps),
                       !.flushed = TRUE, !.previous = w.game,
                       !.has_game = FALSE, !.plies = <<>>]

(* The cells of one directory block: first hash, first offset, entry count, *)
(* the two exception bitmaps, low parts of the hash deltas, high parts of   *)
(* the exceptional ones, then each entry's numbers.                         *)
EncodeDirectoryBlock(entries) ==
    LET n == Len(entries)
        deltas == [i \in 1..(n - 1) |-> entries[i + 1].hash - entries[i].hash]
        Differs(e) == e.occurrences # e.games
        high == SelectSeq([i \in 1..(n - 1) |-> deltas[i] \div LowBase], LAMBDA h : h # 0)
        Numbers(e) == Uleb[e.length] \o Uleb[e.games]
                      \o (IF Differs(e) THEN Uleb[e.occurrences] ELSE <<>>)
                      \o Uleb[e.min_ply] \o Uleb[e.max_ply]
    IN  <<entries[1].hash, entries[1].offset, n>>
        \o [i \in 1..(n - 1) |-> Bit(deltas[i] >= LowBase)]
        \o [i \in 1..n |-> Bit(Differs(entries[i]))]
        \o [i \in 1..(n - 1) |-> deltas[i] % LowBase]
        \o FlattenSeq([i \in 1..Len(high) |-> Uleb[high[i]]])
        \o FlattenSeq([i \in 1..n |-> Numbers(entries[i])])

(* Seeded fault: the flushed entries stay pending. *)
FlushDirectoryBlockKeeping(w) ==
    IF w.pending = <<>> THEN w
    ELSE LET block == EncodeDirectoryBlock(w.pending)
         IN  [w EXCEPT !.spool = @ \o block,
                       !.sparse = Append(@, [first_hash |-> w.pending[1].hash,
                                             offset |-> Len(w.spool),
                                             length |-> Len(block),
                                             entries |-> Len(w.pending)])]

(* flush_directory_block(): the block goes to the spool, with a sparse entry. *)
FlushDirectoryBlock(w) ==
    IF w.pending = <<>> THEN w
    ELSE LET block == EncodeDirectoryBlock(w.pending)
         IN  [w EXCEPT !.spool = @ \o block,
                       !.sparse = Append(@, [first_hash |-> w.pending[1].hash,
                                             offset |-> Len(w.spool),
                                             length |-> Len(block),
                                             entries |-> Len(w.pending)]),
                       !.pending = <<>>]

(* flush_hash(): the last game group, a directory entry, perhaps a block. *)
FlushHash(w) ==
    LET Entry(g) == [hash |-> g.hash, offset |-> g.offset,
                     length |-> HeaderSize + Len(g.postings) - g.offset,
                     occurrences |-> g.count, games |-> g.games,
                     min_ply |-> g.min_ply, max_ply |-> g.max_ply]
        WithEntry(g) == [g EXCEPT !.pending = Append(@, Entry(g)), !.hashes = @ + 1,
                                  !.has_hash = FALSE, !.flushed = FALSE]
        FlushFull(g) == IF Len(g.pending) = BlockEntries THEN FlushDirectoryBlock(g) ELSE g
    IN  IF w.has_hash THEN FlushFull(WithEntry(FlushGameGroup(w))) ELSE w

(* One merged record <<hash, game, ply>>: a new hash closes the last one,   *)
(* a new game the last group.                                               *)
WriteOccurrence(w, item) ==
    LET hash == item[1]  game == item[2]  ply == item[3]
        Begin(h) == [h EXCEPT !.has_hash = TRUE, !.hash = hash,
                              !.offset = HeaderSize + Len(h.postings),
                              !.count = 0, !.games = 0, !.min_ply = ply, !.max_ply = ply]
        AtHash(h) == IF h.has_hash /\ h.hash = hash THEN h ELSE Begin(FlushHash(h))
        AtGame(h) == IF h.has_game /\ h.game = game THEN h
                     ELSE [FlushGameGroup(h) EXCEPT !.has_game = TRUE, !.game = game, !.games = @ + 1]
        AddPly(g) == [g EXCEPT !.plies = Append(@, ply), !.count = @ + 1, !.occurrences = @ + 1,
                               !.min_ply = Min({@, ply}), !.max_ply = Max({@, ply})]
    IN  AddPly(AtGame(AtHash(w)))

(* The assembled file: postings, metadata in id order, the spooled          *)
(* directory, the sparse directory with absolute offsets, patched header.   *)
AssembleFile(records, metadata) ==
    LET Layout(w, ids, meta_offset, dir_offset) ==
            [postings |-> w.postings,
             metadata |-> [i \in 1..Len(ids) |-> [id |-> ids[i], row |-> metadata[ids[i]]]],
             directory |-> w.spool,
             sparse |-> [i \in 1..Len(w.sparse) |->
                            [w.sparse[i] EXCEPT !.offset = dir_offset + @]],
             header |-> [games |-> Cardinality(DOMAIN metadata),
                         occurrences |-> w.occurrences, hashes |-> w.hashes,
                         metadata_offset |-> meta_offset, metadata_count |-> Len(ids),
                         directory_offset |-> dir_offset, directory_length |-> Len(w.spool),
                         sparse_offset |-> dir_offset + Len(w.spool),
                         sparse_count |-> Len(w.sparse)]]
        After(w, ids) == Layout(w, ids, HeaderSize + Len(w.postings),
                                HeaderSize + Len(w.postings) + MetadataRecordSize * Len(ids))
    IN  After(FlushDirectoryBlock(FlushHash(FoldLeft(WriteOccurrence, EmptyWriter, records))),
              Ascending(DOMAIN metadata))

-----------------------------------------------------------------------------
(* Reading *)

(* decode_directory_block(), hash deltas: low parts, and high parts where   *)
(* the bitmap says so.                                                      *)
DecodeDeltas(cells, n) ==
    LET HashBit(i) == cells[3 + i]
        Low(i) == cells[3 + (n - 1) + n + i]
        Extend(st, i, high) ==
            [ok |-> st.ok /\ high.ok /\ high.value # 0, next |-> high.next,
             deltas |-> Append(st.deltas, Low(i) + high.value * LowBase)]
        Highs(st, i) == IF HashBit(i) = 0 THEN [st EXCEPT !.deltas = Append(@, Low(i))]
                        ELSE Extend(st, i, ReadUleb(cells, st.next))
    IN  FoldLeft(Highs, [ok |-> TRUE, next |-> 3 * n + 1, deltas |-> <<>>], Upto(n - 1))

(* decode_directory_block(), entries: `d` holds the deltas; an entry's      *)
(* number of occurrences is stored only where it differs from its games.    *)
DecodeEntries(cells, n, d) ==
    LET CountBit(i) == cells[3 + (n - 1) + i]
        Checked(st, i, r, e) ==
            [ok |-> /\ st.ok /\ r.ok /\ e.length # 0 /\ e.games # 0
                    /\ i > 1 => d.deltas[i - 1] # 0
                    /\ CountBit(i) = 1 => e.occurrences > e.games
                    /\ e.occurrences <= e.length /\ e.min_ply <= e.max_ply /\ e.max_ply <= MaxUint16,
             next |-> r.next, last |-> e, entries |-> Append(st.entries, e)]
        Entry(st, i, v) ==
            [hash |-> IF i = 1 THEN cells[1] ELSE st.last.hash + d.deltas[i - 1],
             offset |-> IF i = 1 THEN cells[2] ELSE st.last.offset + st.last.length,
             length |-> v[1], games |-> v[2],
             occurrences |-> IF CountBit(i) = 1 THEN v[3] ELSE v[2],
             min_ply |-> v[Len(v) - 1], max_ply |-> v[Len(v)]]
        Extend(st, i, r) == Checked(st, i, r, Entry(st, i, r.values))
        Read(st, i) == Extend(st, i, ReadUlebs(cells, st.next, IF CountBit(i) = 1 THEN 5 ELSE 4))
    IN  FoldLeft(Read, [ok |-> d.ok, next |-> d.next, last |-> <<>>, entries |-> <<>>], Upto(n))

(* decode_directory_block(): the entries, or ok = FALSE. *)
DecodeDirectoryBlock(cells) ==
    LET n == IF Len(cells) >= 3 THEN cells[3] ELSE 0
        Whole(all) == [ok |-> all.ok /\ all.next = Len(cells), entries |-> all.entries]
    IN  IF n = 0 \/ n > BlockEntries \/ 3 * n + 1 > Len(cells)
        THEN [ok |-> FALSE, entries |-> <<>>]
        ELSE Whole(DecodeEntries(cells, n, DecodeDeltas(cells, n)))

(* The directory block a sparse entry names. *)
BlockAt(file, sparse) ==
    LET from == sparse.offset - file.header.directory_offset
    IN  DecodeDirectoryBlock(SubSeq(file.directory, from + 1, from + sparse.length))

(* Totals(seq)[i] is the sum of the first i members of a sequence. *)
Totals(seq) ==
    LET sums[i \in 0..Len(seq)] == IF i = 0 THEN 0 ELSE sums[i - 1] + seq[i]
    IN  sums

StrictlyAscending(seq) == \A i \in 1..(Len(seq) - 1) : seq[i] < seq[i + 1]

(* One field of every record of a sequence. *)
Column(seq, field) == [i \in 1..Len(seq) |-> seq[i][field]]

(* open(), section boundaries: every section begins where the last ends. *)
SectionsContiguous(file) ==
    LET h == file.header
    IN  /\ h.metadata_count = h.games
        /\ h.metadata_offset >= HeaderSize
        /\ h.metadata_offset + MetadataRecordSize * h.metadata_count = h.directory_offset
        /\ h.directory_offset + h.directory_length = h.sparse_offset
        /\ h.metadata_offset = HeaderSize + Len(file.postings)
        /\ h.metadata_count = Len(file.metadata)
        /\ h.directory_length = Len(file.directory)
        /\ h.sparse_count = Len(file.sparse)

(* open(), metadata: ids non-zero and ascending. *)
MetadataValid(file) ==
    /\ \A i \in DOMAIN file.metadata : file.metadata[i].id > 0
    /\ StrictlyAscending(Column(file.metadata, "id"))

(* open(), sparse directory: contiguous blocks, ascending first hashes. *)
SparseValid(file) ==
    LET sizes == Totals(Column(file.sparse, "length"))
        counts == Totals(Column(file.sparse, "entries"))
        n == Len(file.sparse)
    IN  /\ \A i \in 1..n : /\ file.sparse[i].length > 0
                           /\ file.sparse[i].entries \in 1..BlockEntries
                           /\ file.sparse[i].offset = file.header.directory_offset + sizes[i - 1]
        /\ StrictlyAscending(Column(file.sparse, "first_hash"))
        /\ file.header.directory_offset + sizes[n] = file.header.sparse_offset
        /\ counts[n] = file.header.hashes

(* open(), directory: every block decodes, entries ascend across blocks and *)
(* tile the posting section.                                                *)
EntriesTile(file, entries, sizes, counts) ==
    LET n == Len(entries)
    IN  /\ StrictlyAscending(Column(entries, "hash"))
        /\ \A i \in 1..n : entries[i].offset = HeaderSize + sizes[i - 1]
        /\ HeaderSize + sizes[n] = file.header.metadata_offset
        /\ counts[n] = file.header.occurrences

DirectoryValid(file) ==
    LET Blocks(blocks, entries) ==
            /\ \A i \in DOMAIN blocks : /\ blocks[i].ok
                                         /\ Len(blocks[i].entries) = file.sparse[i].entries
                                         /\ blocks[i].entries[1].hash = file.sparse[i].first_hash
            /\ EntriesTile(file, entries, Totals(Column(entries, "length")),
                           Totals(Column(entries, "occurrences")))
        Check(blocks) == Blocks(blocks, FlattenSeq(Column(blocks, "entries")))
    IN  Check([i \in 1..Len(file.sparse) |-> BlockAt(file, file.sparse[i])])

OpenAccepts(file) ==
    SectionsContiguous(file) /\ MetadataValid(file) /\ SparseValid(file) /\ DirectoryValid(file)

(* Seeded fault: a block is searched only for hashes above its first. *)
FindSparseBlockAbove(file, hash) ==
    {file.sparse[i] : i \in {j \in DOMAIN file.sparse :
        /\ file.sparse[j].first_hash < hash
        /\ j < Len(file.sparse) => file.sparse[j + 1].first_hash > hash}}

(* find_sparse_block(): the last block whose first hash is not above. *)
FindSparseBlock(file, hash) ==
    {file.sparse[i] : i \in {j \in DOMAIN file.sparse :
        /\ file.sparse[j].first_hash <= hash
        /\ j < Len(file.sparse) => file.sparse[j + 1].first_hash > hash}}

(* find_directory_block_entry(): at most one entry. *)
FindEntry(file, hash) ==
    UNION {{e \in ToSet(BlockAt(file, s).entries) : e.hash = hash} : s \in FindSparseBlock(file, hash)}

(* One game group after `st`: an id delta, a number of plies, the first    *)
(* ply and the gaps to the next ones.                                       *)
DecodeGroup(cells, st, i) ==
    LET Extend(head, gaps, plies) ==
            [ok |-> /\ st.ok /\ head.ok /\ gaps.ok
                    /\ (i > 1 => head.values[1] # 0) /\ st.game + head.values[1] # 0
                    /\ head.values[2] # 0 /\ Last(plies) <= MaxUint16
                    /\ \A k \in DOMAIN gaps.values : gaps.values[k] # 0,
             next |-> gaps.next, game |-> st.game + head.values[1],
             groups |-> Append(st.groups, [id |-> st.game + head.values[1], plies |-> plies])]
        Ply(plies, gap) == Append(plies, Last(plies) + gap)
        Gaps(head, gaps) == Extend(head, gaps, FoldLeft(Ply, <<head.values[3]>>, gaps.values))
        Framed(head) == Gaps(head, ReadUlebs(cells, head.next, head.values[2] - 1))
    IN  Framed(ReadUlebs(cells, st.next, 3))

(* The framing and checks the three posting decoders share: game groups of  *)
(* ascending ids, each with ascending plies, filling the block exactly.     *)
DecodeGroups(cells, entry) ==
    LET Group(st, i) == DecodeGroup(cells, st, i)
        Whole(all, plies) ==
            [ok |-> /\ all.ok /\ all.next = Len(cells) /\ Len(plies) = entry.occurrences
                    /\ Min(ToSet(plies)) = entry.min_ply /\ Max(ToSet(plies)) = entry.max_ply,
             groups |-> all.groups]
        Check(all) == Whole(all, FlattenSeq(Column(all.groups, "plies")))
    IN  Check(FoldLeft(Group, [ok |-> TRUE, next |-> 0, game |-> 0, groups |-> <<>>], Upto(entry.games)))


PostingCells(file, entry) ==
    SubSeq(file.postings, entry.offset - HeaderSize + 1, entry.offset - HeaderSize + entry.length)

MetadataOf(file, id) == {m.row : m \in {x \in ToSet(file.metadata) : x.id = id}}

(* Seeded fault: a limited page starts at the first item. *)
WindowFromFirst(seq, limit, offset) ==
    IF limit = 0 THEN SubSeq(seq, offset + 1, Len(seq)) ELSE SubSeq(seq, 1, Min({limit, Len(seq)}))

(* A slice after `offset` items; limit 0 means no limit. *)
Window(seq, limit, offset) ==
    LET rest == SubSeq(seq, offset + 1, Len(seq))
    IN  IF limit = 0 \/ limit >= Len(rest) THEN rest ELSE SubSeq(rest, 1, limit)

-----------------------------------------------------------------------------
(* Queries of an open file; Corrupt where the code returns schema_mismatch *)

Corrupt == <<"schema_mismatch">>

(* The groups of a hash's posting block; every game of the block must have   *)
(* metadata.                                                                 *)
GroupsOf(file, hash) ==
    LET Known(decoded) == [decoded EXCEPT !.ok = @ /\ \A i \in DOMAIN decoded.groups :
                                                         MetadataOf(file, decoded.groups[i].id) # {}]
        Block(entry) == Known(DecodeGroups(PostingCells(file, entry), entry))
        Found(entries) == IF entries = {} THEN [ok |-> TRUE, groups |-> <<>>]
                          ELSE Block(CHOOSE e \in entries : TRUE)
    IN  Found(FindEntry(file, hash))

Summary(file, hash) ==
    {[occurrences |-> e.occurrences, games |-> e.games, min_ply |-> e.min_ply,
      max_ply |-> e.max_ply] : e \in FindEntry(file, hash)}

(* occurrences(): (id, ply) ascending, windowed by occurrence. *)
Occurrences(file, hash, limit, offset) ==
    LET Rows(g) == [i \in 1..Len(g.plies) |-> <<g.id, g.plies[i]>>]
        Answer(read) ==
            IF ~read.ok THEN Corrupt
            ELSE Window(FlattenSeq([i \in 1..Len(read.groups) |-> Rows(read.groups[i])]), limit, offset)
    IN  Answer(GroupsOf(file, hash))

DistinctGameIds(file, hash, limit, offset) ==
    LET Answer(read) == IF read.ok THEN Window(Column(read.groups, "id"), limit, offset) ELSE Corrupt
    IN  Answer(GroupsOf(file, hash))

FirstOccurrences(file, hash, requested) ==
    LET First(wanted) == [i \in 1..Len(wanted) |-> <<wanted[i].id, wanted[i].plies[1]>>]
        Answer(read) == IF ~read.ok THEN Corrupt
                        ELSE First(SelectSeq(read.groups, LAMBDA g : g.id \in requested))
    IN  IF requested = {} THEN <<>> ELSE Answer(GroupsOf(file, hash))

(* for_each_summary(): hash and summary, block by block. *)
AllSummaries(file) ==
    FlattenSeq([i \in 1..Len(file.sparse) |-> BlockAt(file, file.sparse[i]).entries])
=============================================================================
