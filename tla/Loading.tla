------------------------------ MODULE Loading ------------------------------
(***************************************************************************)
(* How main() of queue_performance.c reads the graph, from fopen() to the  *)
(* last free(): the banner and the size with the readers of mmio.c, the    *)
(* array of rows, the loop that reads a pair of numbers per link, and      *)
(* add_edge(), which appends to a row that grows by chunks.                *)
(*                                                                         *)
(* feof() is true once a read has met the end: the last pair meets it only *)
(* if no newline follows.  With one, a last fscanf() finds no pair, which  *)
(* the loop accepts, and add_edge() is called with i and j as they are:    *)
(* the body of the loop declares them, that round does not assign them,    *)
(* and they hold anything.                                                 *)
(***************************************************************************)
EXTENDS MatrixMarket, FiniteSets, SequencesExt

CONSTANTS
  Files, \* what the file may hold
  Junk,  \* what an unsigned int that was not assigned may hold
  Chunk, \* a row grows by that many cells (16)
  Fails  \* what may fail: "open", "nodes", "rows", "row", "cells", "realloc"

(* A file: the words of its first line, the tokens of the others, and      *)
(* whether the last of these ends in a newline.                            *)
ASSUME FilesAssumption ==
  \A f \in Files :
    /\ f.banner \in Seq(BannerWord)
    /\ f.lines \in Seq(Seq(Nat \cup {Percent, Word}))
    /\ f.newline \in BOOLEAN
    /\ f.lines # <<>> /\ Last(f.lines) = <<>> => f.newline

(* With chunks of one cell, a new row would be full.                       *)
ASSUME SizesAssumption == Junk \subseteq Nat /\ Chunk \in Nat \ {0, 1}

VARIABLES
  file,       \* the file
  failing,    \* the call that fails, "none" if all succeed
  input,      \* the lines of the file not read yet
  eof,        \* a read met the end of the file
  size,       \* M, N and nz
  rows,       \* rows[n]->adjacent_nodes up to size, empty for NULL; or NULL
  cells,      \* the cells allocated for each, 0 without a struct row
  i, j,       \* the locals of the loop, in its last round
  line_count, \* the pairs added
  row,        \* the row the last loop frees next
  status      \* where the program is, or how it ended

vars == <<file, failing, input, eof, size, rows, cells, i, j, line_count, row, status>>

None == <<>>

Ended == {"done", "failed", "crashed", "outside"}

Init ==
  /\ file \in Files
  /\ failing \in Fails \cup {"none"}
  /\ input = file.lines
  /\ eof = FALSE
  /\ size = <<0, 0, 0>>
  /\ rows = None /\ cells = None
  /\ i = 0 /\ j = 0
  /\ line_count = 0 /\ row = 0
  /\ status = "opening"

----------------------------------------------------------------------------
(* The head of the file. *)

graph == <<rows, cells, i, j, line_count, row>>

Goto(s) == status' = s

(* fopen() of the matrix and of the list of searches. *)
Open ==
  /\ status = "opening"
  /\ Goto(IF failing \in {"open", "nodes"} THEN "failed" ELSE "banner")
  /\ UNCHANGED <<file, failing, input, eof, size, graph>>

(* The fgets() of what rest leaves met the end. *)
AtEnd(rest) == rest = <<>> /\ ~file.newline

ReadBanner ==
  /\ status = "banner"
  /\ Goto(IF mm_read_banner(file.banner) = 0 THEN "comments" ELSE "failed")
  /\ eof' = AtEnd(input)
  /\ UNCHANGED <<file, failing, input, size, graph>>

IsComment(line) == line # <<>> /\ Head(line) = Percent

(* mm_read_mtx_crd_size(): the lines up to the first that is no comment,   *)
(* and that line, if it has the numbers; or else the numbers from the text *)
(* that follows, line by line or not, once three of them are in a row.     *)
SkipComment ==
  /\ status = "comments"
  /\ input # <<>> /\ IsComment(Head(input))
  /\ input' = Tail(input)
  /\ eof' = AtEnd(Tail(input))
  /\ UNCHANGED <<file, failing, size, graph, status>>

ReadSizeLine ==
  /\ status = "comments"
  /\ input # <<>> /\ ~IsComment(Head(input))
  /\ LET line == Head(input)
         got  == Matched(line, 3) IN
     /\ size' = [k \in 1..3 |-> IF k <= got THEN line[k] ELSE size[k]]
     /\ Goto(IF got = 3 THEN "sized" ELSE "scanning")
  /\ input' = Tail(input)
  /\ eof' = AtEnd(Tail(input))
  /\ UNCHANGED <<file, failing, graph>>

OnlyComments ==
  /\ status = "comments"
  /\ input = <<>>
  /\ eof' = TRUE
  /\ Goto("failed")
  /\ UNCHANGED <<file, failing, input, size, graph>>

(* The text from here on: fscanf() takes newlines for spaces. *)
Text == FlattenSeq(input)

(* Variant: the end of the file is not told from a line without numbers. *)
NoMoreText(retval) == FALSE

AtEOF(retval) == retval = EOF

Consume(k) ==
  /\ input' = <<SubSeq(Text, Matched(Text, k) + 1, Len(Text))>>
  /\ eof' = (eof \/ MeetsEnd(Text, k, file.newline))

ScanSizes ==
  /\ status = "scanning"
  /\ LET got == Retval(Text, 3) IN
     /\ size' = [k \in 1..3 |-> IF k <= got THEN Text[k] ELSE size[k]]
     /\ Goto(IF AtEOF(got) THEN "failed" ELSE IF got = 3 THEN "sized" ELSE "scanning")
  /\ Consume(3)
  /\ UNCHANGED <<file, failing, graph>>

(* Variant: as many rows as the matrix has. *)
RowsOfMatrix == 0..size[1] - 1

(* Numbered from 0, though those of the file begin at 1. *)
Rows == 0..size[1]

AllocateRows ==
  /\ status = "sized"
  /\ \/ /\ size[1] # size[2] \/ failing = "rows"
        /\ Goto("failed")
        /\ UNCHANGED <<rows, cells>>
     \/ /\ size[1] = size[2] /\ failing # "rows"
        /\ rows' = [n \in Rows |-> <<>>]
        /\ cells' = [n \in Rows |-> 0]
        /\ Goto("reading")
  /\ UNCHANGED <<file, failing, input, eof, size, i, j, line_count, row>>

----------------------------------------------------------------------------
(* The links. *)

(* malloc() of the struct or of its cells may return NULL. *)
NewRow(n, m) ==
  \/ /\ failing \in {"row", "cells"}
     /\ Goto("failed") /\ UNCHANGED <<rows, cells>>
  \/ /\ failing \notin {"row", "cells"}
     /\ rows' = [rows EXCEPT ![n] = <<m>>]
     /\ cells' = [cells EXCEPT ![n] = Chunk]
     /\ UNCHANGED status

(* Variant: the test is for a full multiple, one append too late. *)
NeedsCellsLate(s) == s % Chunk = 0 /\ s > Chunk

NeedsCells(s) == s % Chunk = Chunk - 1

(* What realloc() returned is checked in the wrong variable: without       *)
(* memory, the next statement writes through NULL.                         *)
AppendToRow(n, m) ==
  LET s == Len(rows[n]) IN
  \/ /\ NeedsCells(s) /\ failing = "realloc"
     /\ Goto("crashed") /\ UNCHANGED <<rows, cells>>
  \/ /\ ~(NeedsCells(s) /\ failing = "realloc")
     /\ rows' = [rows EXCEPT ![n] = Append(@, m)]
     /\ cells' = [cells EXCEPT ![n] = IF NeedsCells(s) THEN s + 1 + Chunk ELSE @]
     /\ UNCHANGED status

(* An index beyond the array reads and writes the memory behind it. *)
add_edge(n, m) ==
  IF n \notin DOMAIN rows THEN Goto("outside") /\ UNCHANGED <<rows, cells>>
  ELSE IF cells[n] = 0 THEN NewRow(n, m) ELSE AppendToRow(n, m)

(* Variant: the numbers of a pair change places. *)
SwappedPair(p) == <<p[2], p[1]>>

Pair(p) == p

(* fscanf() finds the next pair. *)
ReadPair ==
  /\ Retval(Text, 2) = 2
  /\ LET p == Pair(<<Text[1], Text[2]>>) IN
     /\ i' = p[1] /\ j' = p[2]
     /\ add_edge(p[1], p[2])
  /\ Consume(2)
  /\ line_count' = line_count + 1
  /\ UNCHANGED <<file, failing, size, row>>

(* Variant: only the number of pairs found is looked at. *)
EndUnnoticed == FALSE

EndNoticed == TRUE

(* fscanf() finds the end of the file, and returns -1: no one assigned i   *)
(* and j, which may be anything.                                           *)
ReadEnd ==
  /\ Retval(Text, 2) = EOF
  /\ eof' = EndNoticed
  /\ \E a, b \in Junk : i' = a /\ j' = b /\ add_edge(a, b)
  /\ line_count' = line_count + 1
  /\ UNCHANGED <<file, failing, input, size, row>>

(* fscanf() finds one number, or text. *)
ReadBad ==
  /\ Retval(Text, 2) \in {0, 1}
  /\ Consume(2)
  /\ Goto("failed")
  /\ UNCHANGED <<file, failing, size, graph>>

ReadingDone ==
  /\ Goto("loaded")
  /\ UNCHANGED <<file, failing, input, eof, size, graph>>

Read ==
  /\ status = "reading"
  /\ IF eof THEN ReadingDone ELSE ReadPair \/ ReadEnd \/ ReadBad

----------------------------------------------------------------------------
(* Variant: the loop stops before the last row. *)
NoMoreRowsEarly == row >= size[1]

NoMoreRows == row >= size[1] + 1

(* The searches, which leave the links alone, are over: the rows are       *)
(* freed, and with the last the array of them.                             *)
FreeRow ==
  /\ status = "loaded"
  /\ ~NoMoreRows
  /\ rows' = [rows EXCEPT ![row] = <<>>]
  /\ cells' = [cells EXCEPT ![row] = 0]
  /\ row' = row + 1
  /\ UNCHANGED <<file, failing, input, eof, size, i, j, line_count, status>>

FreeRows ==
  /\ status = "loaded"
  /\ NoMoreRows
  /\ rows' = None
  /\ Goto("done")
  /\ UNCHANGED <<file, failing, input, eof, size, cells, i, j, line_count, row>>

Next ==
  \/ Open
  \/ ReadBanner
  \/ SkipComment
  \/ ReadSizeLine
  \/ OnlyComments
  \/ ScanSizes
  \/ AllocateRows
  \/ Read
  \/ FreeRow
  \/ FreeRows

Spec == Init /\ [][Next]_vars

(* The program has one thread: it goes on as long as it can. *)
FairSpec == Spec /\ WF_vars(Next)
----------------------------------------------------------------------------
(* Properties. *)

Matrix == [1..3 -> Nat]

(* The types of the locals of main() and of the rows; the round that finds *)
(* the end of the file is the last, so there are no more rounds than the   *)
(* file has numbers, but for that one (queue_performance.c:312-325).       *)
TypeOK ==
  /\ size \in Matrix
  /\ {i, j, line_count, row} \subseteq Nat
  /\ line_count <= Len(FlattenSeq(file.lines)) + 1
  /\ rows = None \/ rows \in [0..size[1] -> Seq(Nat)]
  /\ cells = None \/ cells \in [0..size[1] -> Nat]
  /\ eof \in BOOLEAN
  /\ status \in Ended \cup {"opening", "banner", "comments", "scanning", "sized",
                            "reading", "loaded"}

(* A row never has more values than cells, however often it grew and       *)
(* whatever the last round adds (queue_performance.c:182-192).             *)
RowsFit == \A n \in DOMAIN rows : Len(rows[n]) <= cells[n]

(* What the format asks for: a banner, comments, blank lines, the size of  *)
(* a square matrix on a line of its own, and one link per line.            *)
SizeLine(f) == CHOOSE k \in DOMAIN f.lines :
                 /\ Matched(f.lines[k], 3) = 3
                 /\ \A h \in 1..k - 1 : Matched(f.lines[h], 3) < 3

WellFormed(f) ==
  LET blank == {k \in DOMAIN f.lines : f.lines[k] = <<>>} IN
  /\ mm_read_banner(f.banner) = 0
  /\ \E k \in DOMAIN f.lines : Matched(f.lines[k], 3) = 3
  /\ LET s == SizeLine(f) IN
     /\ Len(f.lines[s]) = 3 /\ f.lines[s][1] = f.lines[s][2]
     /\ \A h \in 1..s - 1 : h \in blank \/ (IsComment(f.lines[h]) /\ \A b \in blank : b > h)
     /\ \A h \in s + 1..Len(f.lines) :
          f.lines[h] \in (1..f.lines[s][1]) \X (1..f.lines[s][1])

Links(f) == SubSeq(f.lines, SizeLine(f) + 1, Len(f.lines))

(* The links of row n among the first k of the file, and whether values    *)
(* are what these lead to, in their order.                                 *)
LinksOf(n, k) == {h \in 1..k : Links(file)[h][1] = n}

HoldsLinks(values, n, k) ==
  /\ Len(values) = Cardinality(LinksOf(n, k))
  /\ \A h \in LinksOf(n, k) : values[Cardinality(LinksOf(n, h))] = Links(file)[h][2]

(* The rows hold the links of the file, in its order: the head of the file *)
(* costs none and adds none.  Where the last line ends in a newline, the   *)
(* round that finds no pair may have put one link more, of any two nodes,  *)
(* behind them, which the searches then follow (mmio.c:197-216,            *)
(* queue_performance.c:312-325).                                           *)
RowsHoldTheFile ==
  status = "loaded" /\ row = 0 /\ WellFormed(file) =>
    LET all == Len(Links(file)) IN
    \A n \in DOMAIN rows :
      \/ HoldsLinks(rows[n], n, all)
      \/ /\ file.newline /\ n = i /\ rows[n] # <<>>
         /\ HoldsLinks(Front(rows[n]), n, all) /\ Last(rows[n]) = j

(* The numbers of a well-formed file stay inside the array of rows.  Only  *)
(* the round that finds no pair, whose i was never assigned, goes beyond   *)
(* it (queue_performance.c:292-324).                                       *)
RowsInside ==
  status = "outside" /\ WellFormed(file) => line_count > Len(Links(file))

(* Where the memory of a row runs out, add_edge() prints that it failed    *)
(* and exits: "Failed to realloc adjacent nodes."                          *)
(* (queue_performance.c:186).  What it looks at is not what realloc()      *)
(* returned, and the cell is written through NULL.                         *)
FailuresExit == status # "crashed"

(* When the program ends, every row that was allocated has been freed      *)
(* (queue_performance.c:391-397).                                          *)
AllFreed == status = "done" => rows = None /\ \A n \in DOMAIN cells : cells[n] = 0

(* A file in which numbers alone follow the comments is read to its end,   *)
(* however it is cut short; text there would keep mm_read_mtx_crd_size()   *)
(* in its loop (mmio.c:209-214).                                           *)
OnlyNumbers(f) ==
  \A k \in DOMAIN f.lines :
    \/ \A h \in 1..k : IsComment(f.lines[h])
    \/ \A t \in DOMAIN f.lines[k] : IsNumber(f.lines[k][t])

ReadingEnds == OnlyNumbers(file) ~> status \in Ended

(* queue_performance.c:326 prints "Read %ld lines of matrix data." with    *)
(* line_count: that many lines are in the file.  When a newline ends the   *)
(* last one, one more was counted.                                         *)
LinesReadAreLines ==
  status = "loaded" /\ WellFormed(file) => line_count = Len(Links(file))
=============================================================================
