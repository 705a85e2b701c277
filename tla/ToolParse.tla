----------------------------- MODULE ToolParse -----------------------------
(***************************************************************************)
(* The list parsers of the pqos utility (pqos/main.c, common.c, monitor.c, *)
(* dump.c, dump_rmids.c).  A list is what the user typed between commas: a *)
(* sequence of tokens, each a single number or a range, which may be typed *)
(* backwards.  Every parser turns it into a table, in typing order, or     *)
(* gives up: the utility then ends with EXIT_FAILURE.  A number itself is  *)
(* taken as read (strtouint64 ends the utility on anything else).          *)
(***************************************************************************)
EXTENDS Integers, Sequences, SequencesExt, FiniteSets, FiniteSetsExt

\* One token of a list; a single number is a range that was not typed as one.
One(n) == [from |-> n, to |-> n, range |-> FALSE]
Between(m, n) == [from |-> m, to |-> n, range |-> TRUE]
Token == [from : Nat, to : Nat, range : BOOLEAN]

\* The numbers of a token, in increasing order whichever way it was typed.
Upwards(tok) ==
  LET low == Min({tok.from, tok.to})
  IN [i \in 1 .. (Max({tok.from, tok.to}) - low + 1) |-> low + i - 1]

\* The numbers of a token in the direction in which it was typed.
AsTyped(tok) == IF tok.from <= tok.to THEN Upwards(tok) ELSE Reverse(Upwards(tok))

\* A table under construction: ok falls when the parser gives up.
Table(s) == [ok |-> TRUE, tab |-> s]
Gone(t) == [t EXCEPT !.ok = FALSE]

\* f of x, worked out once.
Once(x, f(_)) == CHOOSE y \in {f(v) : v \in {x}} : TRUE

\* The elements of a sequence are put into base one after the other.
Gather(op(_, _), base, s) ==
  LET upto[n \in 0 .. Len(s)] ==
        IF n = 0 THEN base ELSE Once(upto[n - 1], LAMBDA v : op(v, s[n]))
  IN upto[Len(s)]

\* The numbers of a list in a row, each with whether a range named it.
Listed(list) ==
  FlattenSeq([i \in 1 .. Len(list) |->
    [j \in 1 .. Len(Upwards(list[i])) |->
       [n |-> Upwards(list[i])[j], range |-> list[i].range]]])

isdup(t, n) == n \in ToSet(t.tab)

-----------------------------------------------------------------------------
(***************************************************************************)
(* strlisttotab: a table of fixed size.  A range that reaches the end of   *)
(* the table is refused even when what is left of it is already there.     *)
(***************************************************************************)
strlisttotab(list, max) ==
  LET full(t, e) == Len(t.tab) >= max /\ (e.range \/ ~isdup(t, e.n))
      put(t, e) ==
        IF ~t.ok \/ full(t, e) THEN Gone(t)
        ELSE IF isdup(t, e.n) THEN t ELSE [t EXCEPT !.tab = Append(@, e.n)]
  IN Gather(put, Table(<<>>), Listed(list))

\* realloc_and_init doubles a table.
realloc_and_init(max) == IF max = 0 THEN 1 ELSE 2 * max

\* The size reached by doubling until n entries fit.
SizeFor[max \in Nat, n \in Nat] ==
  IF max >= n THEN max ELSE SizeFor[realloc_and_init(max), n]

(***************************************************************************)
(* strlisttotabrealloc: a table that grows.  The first range is copied     *)
(* without looking for duplicates, into a table grown beforehand; after    *)
(* that the table is grown once an entry has filled it.  `over' records a  *)
(* write past the end, which follows a first range that fills the table    *)
(* exactly.                                                                *)
(***************************************************************************)
strlisttotabrealloc(list, size) ==
  LET put(t, n) ==
        LET u == IF isdup(t, n) THEN t
                 ELSE [t EXCEPT !.over = @ \/ Len(t.tab) >= t.max,
                                !.tab = Append(@, n)]
        IN IF Len(u.tab) >= u.max THEN [u EXCEPT !.max = realloc_and_init(@)]
           ELSE u
      first(t, tok) == [t EXCEPT !.max = SizeFor[t.max, Len(Upwards(tok))],
                                 !.tab = Upwards(tok)]
      take(t, tok) ==
        IF tok.range /\ t.tab = <<>> THEN first(t, tok)
        ELSE Gather(put, t, Upwards(tok))
  IN Gather(take, [ok |-> TRUE, tab |-> <<>>, max |-> size, over |-> FALSE],
              list)

\* pid_list_size_exceeded counts numbers before the list is expanded, every
\* repetition included.
pid_list_size_exceeded(list, limit) ==
  Gather(LAMBDA n, tok : n + Len(Upwards(tok)), 0, list) > limit

-----------------------------------------------------------------------------
(***************************************************************************)
(* The strict parsers: a number given twice is an error, and so is one out *)
(* of the range below bound.                                               *)
(***************************************************************************)
Strict(list, max, bound, expand(_)) ==
  LET put(t, n) ==
        IF ~t.ok \/ Len(t.tab) >= max \/ n >= bound \/ isdup(t, n) THEN Gone(t)
        ELSE [t EXCEPT !.tab = Append(@, n)]
      res == Gather(put, Table(<<>>), FlattenSeq([i \in 1 .. Len(list) |-> expand(list[i])]))
  IN IF res.tab = <<>> THEN Gone(res) ELSE res

\* pqos_parse_mem_regions refuses a range typed backwards.
pqos_parse_mem_regions(list, max) ==
  IF \E i \in DOMAIN list : list[i].from > list[i].to THEN Gone(Table(<<>>))
  ELSE Strict(list, max, max, Upwards)

\* parse_virtual_channels follows the direction of the range.
parse_virtual_channels(list, max) == Strict(list, max, max, AsTyped)

(***************************************************************************)
(* The options that take a list of small numbers (domains, sockets, RMIDs, *)
(* regions of an allocation): a deduplicated list, not empty, each number  *)
(* below a bound.  The check for duplicates that follows finds none.       *)
(***************************************************************************)
NumberList(list, max, bound) ==
  LET t == strlisttotab(list, max)
  IN IF t.ok /\ t.tab # <<>> /\ \A i \in DOMAIN t.tab : t.tab[i] < bound
     THEN t ELSE Gone(t)

=============================================================================
