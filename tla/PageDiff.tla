------------------------------ MODULE PageDiff -------------------------------
(***************************************************************************)
(* The diff of two versions of a page, line by line (domain/diff.go).      *)
(***************************************************************************)
EXTENDS Integers, SequencesExt

\* dp[<<i, j>>]: how many lines a and b, without their first i and j, have in
\* common.
Table(a, b) ==
  LET n == Len(a)
      m == Len(b)
      dp[p \in (0..n) \X (0..m)] ==
        LET i == p[1]
            j == p[2]
        IN  IF i = n \/ j = m THEN 0
            ELSE IF a[i + 1] = b[j + 1] THEN 1 + dp[<<i + 1, j + 1>>]
            ELSE Max({dp[<<i + 1, j>>], dp[<<i, j + 1>>]})
  IN dp

\* The lines of the diff from line i of a and line j of b on.
DiffFrom(a, b) ==
  LET n  == Len(a)
      m  == Len(b)
      dp == Table(a, b)
      line(op, text) == <<[op |-> op, text |-> text]>>
      from[p \in (0..n) \X (0..m)] ==
        LET i == p[1]
            j == p[2]
        IN  CASE i = n /\ j = m -> <<>>
              [] i < n /\ j < m /\ a[i + 1] = b[j + 1] ->
                   line("equal", a[i + 1]) \o from[<<i + 1, j + 1>>]
              [] i < n /\ (j = m \/ (a[i + 1] # b[j + 1]
                                     /\ dp[<<i + 1, j>>] >= dp[<<i, j + 1>>])) ->
                   line("delete", a[i + 1]) \o from[<<i + 1, j>>]
              [] OTHER -> line("insert", b[j + 1]) \o from[<<i, j + 1>>]
  IN from

LineDiff(a, b) == DiffFrom(a, b)[<<0, 0>>]

-----------------------------------------------------------------------------

\* The texts of the first k lines of a diff, those with other ops left out.
LinesLeft(diff, ops) ==
  LET left[k \in 0..Len(diff)] ==
        IF k = 0 THEN <<>>
        ELSE IF diff[k].op \in ops THEN left[k - 1] \o <<diff[k].text>> ELSE left[k - 1]
  IN left

LinesWith(diff, ops) == LinesLeft(diff, ops)[Len(diff)]

\* s is t with some lines taken out.
IsPartOf(s, t) ==
  \E at \in [DOMAIN s -> DOMAIN t] :
    /\ \A i, j \in DOMAIN s : i < j => at[i] < at[j]
    /\ \A i \in DOMAIN s : s[i] = t[at[i]]

\* The diff is the one text without what is inserted, the other without what is
\* deleted, and keeps as many lines as any diff can.
DiffIsRight(a, b) ==
  LET diff == LineDiff(a, b) IN
  /\ LinesWith(diff, {"equal", "delete"}) = a
  /\ LinesWith(diff, {"equal", "insert"}) = b
  /\ \A s \in UNION {[1..k -> ToSet(a)] : k \in 0..Len(a)} :
       IsPartOf(s, a) /\ IsPartOf(s, b) => Len(s) <= Len(LinesWith(diff, {"equal"}))
=============================================================================
