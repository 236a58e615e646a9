---------------------------- MODULE SudokuSolver ----------------------------
(***************************************************************************)
(* solveSudoku of examples/sudoku: exact cover by dancing links.  Every    *)
(* blank cell and every value that a row, a column or a box still misses   *)
(* is a column of the matrix, every value a blank cell may take is a row   *)
(* of four nodes.  The constructor is one step to each column or row that  *)
(* it may append; a step of the search is a part of solve() between two    *)
(* calls of it.                                                            *)
(*                                                                         *)
(* Nodes are numbered in the order in which they are made; lists is the    *)
(* array nodes_, field by field.  The board has BoxSide^2 values.          *)
(***************************************************************************)
EXTENDS Integers, Sequences, FiniteSets, Functions

CONSTANTS BoxSide,          \* 3 in the code
          Boards,           \* the puzzles solved: functions from cells to characters
          Grids             \* completed boards, among which a puzzle's answer may be

VARIABLES board,            \* inout_
          lists,            \* nodes_
          frames,           \* the calls of solve(): column and row; the rows are stack_
          step,             \* the column or row that the constructor comes to
          at, puzzle

solverVars == <<board, lists, frames, step, at, puzzle>>

Side == BoxSide * BoxSide
Cells == 0..(Side * Side - 1)
Values == 1..Side
Root == 1
kRow == 100
kCol == 200
kBox == 300

\* The columns of the matrix that a value in a cell takes: get_row_col and so on.
Units(i, v) == LET row == i \div Side  col == i % Side
                   box == (row \div BoxSide) * BoxSide + col \div BoxSide
               IN  <<kRow + row * 10 + v, kCol + col * 10 + v, kBox + box * 10 + v>>

Taken(bd) == UNION {Range(Units(i, bd[i])) : i \in {j \in Cells : bd[j] # 0}}

\* A board that has every value in every row, column and box.
AllUnits == {k + i * 10 + v : k \in {kRow, kCol, kBox}, i \in 0..(Side - 1), v \in Values}
Right(bd) == UNION {Range(Units(i, bd[i])) : i \in Cells} = AllUnits

ASSUME SolverConstants == /\ BoxSide \in 1..3
                          /\ \A b \in Boards : b \in [Cells -> Int]
                          /\ \A g \in Grids : g \in [Cells -> Values] /\ Right(g)

-----------------------------------------------------------------------------
(* Loops along links *)

\* The nodes from n along f, until n again.
Walk(f, n) == LET to[k \in 0..Len(f)] == IF k = 0 THEN n ELSE f[to[k - 1]]
                  end == CHOOSE k \in 1..Len(f) : to[k] = n /\ \A j \in 1..(k - 1) : to[j] # n
              IN  [k \in 1..(end - 1) |-> to[k]]

\* What a loop over the nodes makes of the lists.
Along(Body(_, _), l, nodes) ==
  LET after[k \in 0..Len(nodes)] == IF k = 0 THEN l ELSE Body(after[k - 1], nodes[k])
  IN  after[Len(nodes)]

-----------------------------------------------------------------------------
(* The matrix *)

Nodes == [left |-> <<>>, right |-> <<>>, up |-> <<>>, down |-> <<>>,
          col |-> <<>>, name |-> <<>>, size |-> <<>>]

NewNode(l, col, name) ==
  LET n == Len(l.left) + 1
  IN  [left |-> Append(l.left, n), right |-> Append(l.right, n),
       up |-> Append(l.up, n), down |-> Append(l.down, n),
       col |-> Append(l.col, IF col = 0 THEN n ELSE col),
       name |-> Append(l.name, name), size |-> Append(l.size, 0)]

put_left(l, old, n) == [l EXCEPT !.left[n] = l.left[old], !.right[n] = old,
                                 !.right[l.left[old]] = n, !.left[old] = n]

put_up(l, old, n) == [l EXCEPT !.up[n] = l.up[old], !.down[n] = old,
                               !.down[l.up[old]] = n, !.up[old] = n, !.size[old] = @ + 1]

append_column(l, name) == put_left(NewNode(l, 0, name), Root, Len(l.left) + 1)

new_row(l, name) ==
  LET c == CHOOSE c \in DOMAIN l.col : c # Root /\ l.name[c] = name /\ l.col[c] = c
  IN  put_up(NewNode(l, c, name), c, Len(l.left) + 1)

append_row(l, i, v) ==
  LET n == Len(l.left) + 1
      u == Units(i, v)
      made == new_row(new_row(new_row(new_row(l, i), u[1]), u[2]), u[3])
  IN  put_left(put_left(put_left(made, n, n + 1), n, n + 2), n, n + 3)

\* The names of columns, in the order in which the constructor comes to them.
Name(k) == LET m == k - Side * Side - 1
           IN  IF k <= Side * Side THEN k - 1
               ELSE <<kRow, kCol, kBox>>[(m % 3) + 1] + (m \div (3 * Side)) * 10
                      + ((m \div 3) % Side) + 1

\* Mutant: a column is appended also for a value that is given.
NeededAll(bd, name) == IF name \in Cells THEN bd[name] = 0 ELSE TRUE

Needed(bd, name) == IF name \in Cells THEN bd[name] = 0 ELSE name \notin Taken(bd)

MayTake(bd, i, v) == bd[i] = 0 /\ Range(Units(i, v)) \cap Taken(bd) = {}

-----------------------------------------------------------------------------
(* Covering *)

Unlink(l, j) == [l EXCEPT !.up[l.down[j]] = l.up[j], !.down[l.up[j]] = l.down[j],
                          !.size[l.col[j]] = @ - 1]

Relink(l, j) == [l EXCEPT !.size[l.col[j]] = @ + 1, !.up[l.down[j]] = j, !.down[l.up[j]] = j]

UnlinkRow(l, row) == Along(Unlink, l, Walk(l.right, row))
RelinkRow(l, row) == Along(Relink, l, Walk(l.left, row))

cover(l, c) ==
  Along(UnlinkRow, [l EXCEPT !.left[l.right[c]] = l.left[c], !.right[l.left[c]] = l.right[c]],
        Walk(l.down, c))

uncover(l, c) ==
  LET m == Along(RelinkRow, l, Walk(l.up, c))
  IN  [m EXCEPT !.left[m.right[c]] = c, !.right[m.left[c]] = c]

CoverOf(l, j) == cover(l, l.col[j])
UncoverOf(l, j) == uncover(l, l.col[j])

\* The other columns of a row.
CoverRow(l, row) == Along(CoverOf, l, Walk(l.right, row))
UncoverRow(l, row) == Along(UncoverOf, l, Walk(l.left, row))

\* The first with one row or none, else the first of those with fewest rows.
get_min_column(l) ==
  LET cols == Walk(l.right, Root)
      least(k) == l.size[cols[k]] <= 1 \/ \A j \in DOMAIN cols : l.size[cols[k]] <= l.size[cols[j]]
  IN  cols[CHOOSE k \in DOMAIN cols : least(k) /\ \A j \in 1..(k - 1) : ~ least(j)]

-----------------------------------------------------------------------------
SolverInit == /\ puzzle \in Boards
              /\ board = puzzle /\ lists = Nodes /\ frames = <<>> /\ step = 1 /\ at = "start"

\* solveSudoku: a character that is no digit makes the puzzle invalid.
Begin == /\ at = "start"
         /\ IF \A i \in Cells : puzzle[i] \in {0} \cup Values
              THEN lists' = NewNode(lists, 0, 0) /\ at' = "columns"
              ELSE at' = "NoSolution" /\ UNCHANGED lists
         /\ UNCHANGED <<board, frames, step, puzzle>>

AppendColumn ==
  /\ at = "columns"
  /\ IF Needed(board, Name(step)) THEN lists' = append_column(lists, Name(step))
                                  ELSE UNCHANGED lists
  /\ IF step < 4 * Side * Side THEN step' = step + 1 /\ UNCHANGED at
                               ELSE step' = 1 /\ at' = "rows"
  /\ UNCHANGED <<board, frames, puzzle>>

AppendRow ==
  /\ at = "rows"
  /\ LET i == (step - 1) \div Side  v == ((step - 1) % Side) + 1
     IN  IF MayTake(board, i, v) THEN lists' = append_row(lists, i, v) ELSE UNCHANGED lists
  /\ IF step < Side * Side * Side THEN step' = step + 1 /\ UNCHANGED at
                                  ELSE at' = "solve" /\ UNCHANGED step
  /\ UNCHANGED <<board, frames, puzzle>>

\* The cell and the value of a row, of which row is one node.
NamesOfRow(l, row) == {l.name[n] : n \in {row} \cup Range(Walk(l.right, row))}
Cell(l, row) == CHOOSE i \in NamesOfRow(l, row) : i < kRow
Val(l, row) == (CHOOSE u \in NamesOfRow(l, row) : u >= kRow) % 10

Solved == /\ at = "solve" /\ lists.left[Root] = Root
          /\ LET rowOf(i) == {k \in DOMAIN frames : Cell(lists, frames[k].row) = i}
             IN  board' = [i \in Cells |->
                             IF rowOf(i) = {} THEN board[i]
                             ELSE Val(lists, frames[CHOOSE k \in rowOf(i) : TRUE].row)]
          /\ at' = "Solution"
          /\ UNCHANGED <<lists, frames, step, puzzle>>

Choose == /\ at = "solve" /\ lists.left[Root] # Root
          /\ LET c == get_min_column(lists)
             IN  /\ lists' = cover(lists, c)
                 /\ frames' = Append(frames, [col |-> c, row |-> lists'.down[c]])
          /\ at' = "row"
          /\ UNCHANGED <<board, step, puzzle>>

Top == frames[Len(frames)]

TryRow == /\ at = "row" /\ Top.row # Top.col
          /\ lists' = CoverRow(lists, Top.row)
          /\ at' = "solve"
          /\ UNCHANGED <<board, frames, step, puzzle>>

\* solve() returns false.
Return == /\ at = "row" /\ Top.row = Top.col
          /\ lists' = uncover(lists, Top.col)
          /\ frames' = SubSeq(frames, 1, Len(frames) - 1)
          /\ at' = IF Len(frames) = 1 THEN "NoSolution" ELSE "back"
          /\ UNCHANGED <<board, step, puzzle>>

\* Mutant: the columns are uncovered in the order in which they were covered.
NextRowForward ==
  /\ at = "back"
  /\ lists' = Along(UncoverOf, lists, Walk(lists.right, Top.row))
  /\ frames' = [frames EXCEPT ![Len(frames)].row = lists'.down[@]]
  /\ at' = "row"
  /\ UNCHANGED <<board, step, puzzle>>

NextRow == /\ at = "back"
           /\ lists' = UncoverRow(lists, Top.row)
           /\ frames' = [frames EXCEPT ![Len(frames)].row = lists'.down[@]]
           /\ at' = "row"
           /\ UNCHANGED <<board, step, puzzle>>

SolverNext == \/ Begin \/ AppendColumn \/ AppendRow
              \/ Solved \/ Choose \/ TryRow \/ Return \/ NextRow

SolverSpec == SolverInit /\ [][SolverNext]_solverVars

-----------------------------------------------------------------------------
\* A column links the nodes, in order, up and down, and counts them.
Links(col, nodes) ==
  LET down == Walk(lists.down, col)  up == Walk(lists.up, col)
  IN  /\ Range(down) = nodes
      /\ \A k \in 1..(Len(down) - 1) : down[k] < down[k + 1]
      /\ up = [k \in 1..Len(down) |-> down[Len(down) + 1 - k]]
      /\ lists.size[col] = Cardinality(nodes)

\* After any number of choices taken and taken back, the links are those of the part
\* of the matrix that is left: the columns that are not covered, and in each of them
\* the nodes of the rows that use no covered column.
LinksConsistent ==
  lists # Nodes =>
    LET left == Walk(lists.right, Root)
        open == Range(left)
        rows == {n \in DOMAIN lists.col : /\ n # Root /\ lists.col[n] # n
                                          /\ \A j \in {n} \cup Range(Walk(lists.right, n)) :
                                                lists.col[j] \in open}
    IN  /\ Walk(lists.left, Root) = [k \in 1..Len(left) |-> left[Len(left) + 1 - k]]
        /\ \A c \in open : Links(c, {n \in rows : lists.col[n] = c})

\* A puzzle is answered by a board that completes it and has every value in every
\* row, column and box, and with NoSolution only when no such board is there, also
\* when the givens contradict each other.
Agrees(bd) == \A i \in Cells : puzzle[i] # 0 => bd[i] = puzzle[i]
SolvesRight == /\ at = "Solution" => Right(board) /\ Agrees(board)
               /\ at = "NoSolution" => \A g \in Grids : ~ Agrees(g)
=============================================================================
