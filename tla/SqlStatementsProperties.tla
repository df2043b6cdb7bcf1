------------------------ MODULE SqlStatementsProperties ------------------------
(***************************************************************************)
(* What split_sql_statements promises, stated without a scanner, of the    *)
(* files that AirpayMigrations executes statement by statement.            *)
(***************************************************************************)
EXTENDS AirpayMigrationsProperties, SqlStatements

CONSTANT Texts    \* the texts that a version of a file may stand for

ASSUME TextsAssumption == \A v \in Versions : Texts[v] \subseteq Seq(Characters)

-----------------------------------------------------------------------------
(* How PostgreSQL's lexer reads a text, with standard_conforming_strings   *)
(* on as by default: as a row of words, each a comment, a literal, a       *)
(* dollar-quoted block, an identifier, or any other character.             *)

(* The first place at which a mark ends that begins at i or after, or the  *)
(* end of the text.                                                        *)
Ends(mark, t, i) ==
    {j \in i .. Len(t) : j - Len(mark) + 1 >= i /\ Occurs(mark, t, j - Len(mark) + 1)}
EndOf(mark, t, i) == IF Ends(mark, t, i) = {} THEN Len(t) ELSE First(Ends(mark, t, i))

(* Comments nest: where one ends that is read on from place p[1] and is    *)
(* itself in p[2] others.                                                  *)
CommentEnd(t) ==
    LET end[p \in (1 .. Len(t) + 2) \X Nat] ==
            IF p[1] > Len(t) THEN Len(t)
            ELSE IF Occurs(<<"*", "/">>, t, p[1])
                 THEN IF p[2] = 0 THEN p[1] + 1 ELSE end[<<p[1] + 2, p[2] - 1>>]
            ELSE IF Occurs(<<"/", "*">>, t, p[1]) THEN end[<<p[1] + 2, p[2] + 1>>]
            ELSE end[<<p[1] + 1, p[2]>>]
    IN  end

(* E'...': a backslash takes the next character with it, a quote a second. *)
Escape(t, i) == Occurs(<<"E", "'">>, t, i)
EscapeEnd(t) ==
    LET end[i \in 1 .. Len(t) + 2] ==
            IF i > Len(t) THEN Len(t)
            ELSE IF t[i] = "bs" \/ Occurs(<<"'", "'">>, t, i) THEN end[i + 2]
            ELSE IF t[i] = "'" THEN i
            ELSE end[i + 1]
    IN  end

(* An identifier may hold dollar signs, and goes as far as it can.         *)
IdentifierEnd(t, i) ==
    First({j \in i .. Len(t) : At(t, j + 1) \notin NameCharacters \cup {"$"}})

(* A tag is empty or a name; with a digit the dollar sign is a parameter.  *)
Tags(t, i) ==
    {j \in i + 1 .. Len(t) :
        /\ t[j] = "$" /\ At(t, i + 1) # "0"
        /\ \A k \in i + 1 .. j - 1 : t[k] \in NameCharacters}

(* A doubled quote is two literals side by side.                           *)
WordEnd(t, i) ==
    CASE Occurs(<<"-", "-">>, t, i) -> EndOf(<<"nl">>, t, i + 2)
      [] Occurs(<<"/", "*">>, t, i) -> CommentEnd(t)[<<i + 2, 0>>]
      [] t[i] = "'" -> EndOf(<<"'">>, t, i + 1)
      [] Escape(t, i) -> EscapeEnd(t)[i + 2]
      [] t[i] \in Letters /\ ~ Escape(t, i) -> IdentifierEnd(t, i)
      [] t[i] = "$" /\ Tags(t, i) # {} ->
            LET j == First(Tags(t, i)) IN EndOf(SubSeq(t, i, j), t, j + 1)
      [] OTHER -> i

(* The statements: what stands between semicolons that are words.  (Those  *)
(* in the body of a CREATE RULE or between BEGIN ATOMIC and END are none   *)
(* of a lexer's business.)  A stretch that begins at i goes up to the      *)
(* first of them, or to the end.                                           *)
Ending(t) ==
    LET ending[i \in 1 .. Len(t) + 1] ==
            IF i > Len(t) \/ t[i] = "semi" THEN i ELSE ending[WordEnd(t, i) + 1]
    IN  ending

Piece(t, i, j) == LET piece == Strip(SubSeq(t, i, j)) IN
                  IF piece = <<>> THEN <<>> ELSE <<piece>>

WrittenFrom(t) ==
    LET from[i \in 1 .. Len(t) + 2] ==
            IF i > Len(t) + 1 THEN <<>>
            ELSE Piece(t, i, Ending(t)[i] - 1) \o from[Ending(t)[i] + 1]
    IN  from

Written(t) == WrittenFrom(t)[1]

(* The words that a scanner without nested comments, escapes, identifiers  *)
(* and parameters cannot read.  A text is plain if it has none; what such  *)
(* a word looks like may well stand inside a literal, comment or block.    *)
Ordinary(t, i) ==
    /\ Occurs(<<"/", "*">>, t, i) =>
           \A k \in i + 2 .. EndOf(<<"*", "/">>, t, i + 2) : ~ Occurs(<<"/", "*">>, t, k)
    /\ ~ Escape(t, i)
    /\ t[i] \in Letters => \A k \in i .. WordEnd(t, i) : t[k] # "$"
    /\ t[i] = "$" => At(t, i + 1) # "0"

FirstStrange(t) ==
    LET strange[i \in 1 .. Len(t) + 1] ==
            IF i > Len(t) \/ ~ Ordinary(t, i) THEN i ELSE strange[WordEnd(t, i) + 1]
    IN  strange

Plain(t) == FirstStrange(t)[1] = Len(t) + 1

-----------------------------------------------------------------------------
SplitAsWritten ==
    [v \in Versions |-> \A t \in Texts[v] : Plain(t) => Split(t) = Written(t)]

(* run_airpay_migrations.py:23, "splits SQL without breaking strings,      *)
(* literals and DO $$...$$ blocks": of a file without a transaction in     *)
(* which no comment nests, no literal is E'...', no identifier holds a     *)
(* dollar sign and no parameter stands, a runner sends the statements that *)
(* PostgreSQL reads there, which are the stretches between the semicolons  *)
(* that stand in no comment, literal or block, whole and in order, also    *)
(* where these are doubled, unfinished or begin inside one another.        *)
SentAsWritten ==
    \A r \in Runners :
        pc[r] = "applying" /\ at[r] \in NoTransaction => SplitAsWritten[text[r]]
=============================================================================
