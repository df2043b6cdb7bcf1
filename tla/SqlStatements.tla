----------------------------- MODULE SqlStatements -----------------------------
(***************************************************************************)
(* How Airpay's migration runner splits a file without a transaction into  *)
(* the statements it sends one by one: a scan from left to right that      *)
(* remembers the literal, comment or dollar-quoted block it is in.         *)
(*                                                                         *)
(* A text is a sequence of characters: "semi" for the semicolon, "nl" for  *)
(* the end of a line, "bs" for the backslash, "E" for this letter, "x" for *)
(* the others and the underscore, "0" for the digits, and those that begin *)
(* or end a quotation.  (The double quote works like "'", except that "E"  *)
(* before it means nothing.)                                               *)
(*                                                                         *)
(* Source: api/scripts/run_airpay_migrations.py.                           *)
(***************************************************************************)
EXTENDS Naturals, Sequences

Characters == {"x", "E", "0", "semi", "'", "$", "-", "/", "*", "nl", "bs"}

Letters == {"x", "E"}
NameCharacters == Letters \cup {"0"}

First(places) == CHOOSE i \in places : \A j \in places : i <= j

At(t, i) == IF i \in 1 .. Len(t) THEN t[i] ELSE "none"

(* content.startswith(tag, i)                                              *)
Occurs(tag, t, i) == \A k \in 1 .. Len(tag) : At(t, i + k - 1) = tag[k]

Strip(t) ==
    LET ink == {i \in 1 .. Len(t) : t[i] # "nl"} IN
    IF ink = {} THEN <<>>
    ELSE SubSeq(t, First(ink), CHOOSE i \in ink : \A j \in ink : i >= j)

(* The tag that begins at the dollar sign at i, empty if there is none.    *)
Slip_TagOfAnything(t, i) ==
    LET closing == {j \in i + 1 .. Len(t) : t[j] = "$"} IN
    IF closing = {} THEN <<>> ELSE SubSeq(t, i, First(closing))
DollarTag(t, i) ==
    LET closing == {j \in i + 1 .. Len(t) : t[j] = "$"}
        tag == SubSeq(t, i, First(closing))
    IN  IF closing # {} /\ \A k \in 2 .. Len(tag) - 1 : tag[k] \in NameCharacters
        THEN tag ELSE <<>>

-----------------------------------------------------------------------------
(* The scanner: the mode it is in, the mark that ends the mode, characters *)
(* of a mark still to be passed over, and the statements made so far.      *)

Start == [mode |-> "code", mark |-> <<>>, pass |-> 0, current |-> <<>>, made |-> <<>>]

Enter(s, mode, mark, length) ==
    [s EXCEPT !.mode = mode, !.mark = mark, !.pass = length - 1]
Leave(s, length) == Enter(s, "code", <<>>, length)

Close(s) ==
    [s EXCEPT !.current = <<>>,
              !.made = IF Strip(s.current) = <<>> THEN @ ELSE Append(@, Strip(s.current))]

(* In a literal, comment or block: is this its end?                        *)
Slip_CommentToTheEnd(s, t, i) ==
    CASE s.mode = "quote" /\ At(t, i) = "'" ->
            IF At(t, i + 1) = "'" THEN [s EXCEPT !.pass = 1] ELSE Leave(s, 1)
      [] s.mode \in {"block", "dollar"} /\ Occurs(s.mark, t, i) -> Leave(s, Len(s.mark))
      [] OTHER -> s
Inside(s, t, i) ==
    CASE s.mode = "line" /\ At(t, i) = "nl" -> Leave(s, 1)
      [] s.mode = "quote" /\ At(t, i) = "'" ->
            IF At(t, i + 1) = "'" THEN [s EXCEPT !.pass = 1] ELSE Leave(s, 1)
      [] s.mode \in {"block", "dollar"} /\ Occurs(s.mark, t, i) -> Leave(s, Len(s.mark))
      [] OTHER -> s

(* Outside: does one begin?                                                *)
Outside(s, t, i) ==
    CASE Occurs(<<"-", "-">>, t, i) -> Enter(s, "line", <<"nl">>, 2)
      [] Occurs(<<"/", "*">>, t, i) -> Enter(s, "block", <<"*", "/">>, 2)
      [] t[i] = "'" -> Enter(s, "quote", <<"'">>, 1)
      [] t[i] = "$" /\ DollarTag(t, i) # <<>> ->
            Enter(s, "dollar", DollarTag(t, i), Len(DollarTag(t, i)))
      [] OTHER -> s

Scan(s, t, i) ==
    LET kept == [s EXCEPT !.current = Append(@, t[i])] IN
    IF s.pass > 0 THEN [kept EXCEPT !.pass = @ - 1]
    ELSE IF s.mode # "code" THEN Inside(kept, t, i)
    ELSE IF t[i] = "semi" THEN Close(s)
    ELSE Outside(kept, t, i)

(* split_sql_statements: the scanner after each place, and what is left of *)
(* the text when it has come to the end.                                   *)
Scanned(t) ==
    LET scanned[i \in 0 .. Len(t)] == IF i = 0 THEN Start ELSE Scan(scanned[i - 1], t, i)
    IN  scanned
Split(t) == Close(Scanned(t)[Len(t)]).made
=============================================================================
