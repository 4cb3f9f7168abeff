------------------------------ MODULE CheckSql ------------------------------
(***************************************************************************)
(* pgcircuit check-sql (src/internal/cli/check.go): a scan of SQL files,   *)
(* line by line, for statements of a few shapes.  A line is the words      *)
(* before its comment, with the semicolons among them, and what the        *)
(* comment is; the words keep the order of the file, not their spelling.   *)
(***************************************************************************)
EXTENDS Integers, Sequences, SequencesExt

(* comment: none, one without a semicolon ("plain"), or one with.          *)
Line(words, comment) == [words |-> words, comment |-> comment]

Starts(words, s) == Len(s) >= Len(words) /\ SubSeq(s, 1, Len(words)) = words

(* What is left of the words after an alias, DELETE FROM t AS x.           *)
Unaliased(s) == IF Starts(<<"AS">>, s) THEN SubSeq(s, 3, Len(s)) ELSE s

(* reDeleteNoWhere and reUpdateNoWhere: the name, an alias with AS, and    *)
(* for DELETE nothing else, for UPDATE the end of the one statement.       *)
DeleteNoWhere(s) ==
    /\ Starts(<<"DELETE", "FROM">>, s) /\ Len(s) >= 3
    /\ Unaliased(SubSeq(s, 4, Len(s))) \in {<<>>, <<"semicolon">>}

UpdateNoWhere(s) ==
    /\ Starts(<<"UPDATE">>, s) /\ Len(s) >= 2
    /\ Starts(<<"SET">>, Unaliased(SubSeq(s, 3, Len(s))))
    /\ Last(s) = "semicolon"
    /\ \A i \in 1..Len(s) - 1 : s[i] # "semicolon"

HasWhereWord(s) == \E i \in DOMAIN s : s[i] = "WHERE"

(* The switch of flush.                                                    *)
Findings(s) ==
    CASE Starts(<<"DROP", "DATABASE">>, s) -> <<"PGC005">>
      [] Starts(<<"DROP", "SCHEMA">>, s) -> <<"PGC012">>
      [] Starts(<<"DROP", "TABLE">>, s) -> <<"PGC004">>
      [] Starts(<<"TRUNCATE">>, s) -> <<"PGC003">>
      [] DeleteNoWhere(s) /\ ~HasWhereWord(s) -> <<"PGC001">>
      [] UpdateNoWhere(s) /\ ~HasWhereWord(s) -> <<"PGC002">>
      [] OTHER -> <<>>

(* Mutant of EndsStatement: each line is a statement.                      *)
EndsStatementAlways(line) == TRUE

(* strings.Contains(line, ";"), the comment included.  The word for ";" is *)
(* "semicolon", in the words of a line and in its comment.                 *)
EndsStatement(line) ==
    line.comment = "semicolon" \/ \E i \in DOMAIN line.words : line.words[i] = "semicolon"

(* One turn of the loop of scanSQLFile: blank lines and comment lines are  *)
(* passed over between statements; the comments of a statement are gone    *)
(* before it is matched.                                                   *)
ScanLine(scan, line) ==
    LET stmt == scan.stmt \o line.words
    IN  IF ~scan.open /\ line.words = <<>> THEN scan
        ELSE IF EndsStatement(line)
             THEN [open |-> FALSE, stmt |-> <<>>, found |-> scan.found \o Findings(stmt)]
             ELSE [scan EXCEPT !.open = TRUE, !.stmt = stmt]

Scan(lines) ==
    LET end == FoldLeft(ScanLine, [open |-> FALSE, stmt |-> <<>>, found |-> <<>>], lines)
    IN  end.found \o Findings(end.stmt)

-----------------------------------------------------------------------------
(* Files                                                                   *)

(* The words broken into lines after the places in cuts, each line with    *)
(* the comment.                                                            *)
Broken(words, cuts, comment) ==
    LET Put(lines, k) ==
          IF k - 1 \in cuts
          THEN Append(lines, Line(<<words[k]>>, comment))
          ELSE [lines EXCEPT ![Len(lines)].words = Append(@, words[k])]
    IN  FoldLeft(Put, <<Line(<<>>, comment)>>, [k \in DOMAIN words |-> k])

(* What may stand above a statement: nothing, a comment, a blank line,     *)
(* another statement.                                                      *)
Preambles ==
    {<<>>, <<Line(<<>>, "semicolon")>>, <<Line(<<>>, "none")>>,
     <<Line(<<"SELECT", "1", "semicolon">>, "plain")>>}

(* The files that hold the statement alone on its lines.                   *)
Files(words) ==
    {above \o Broken(words, cuts, comment) :
        above \in Preambles, cuts \in SUBSET (1..Len(words) - 1),
        comment \in {"none", "plain"}}

=============================================================================
