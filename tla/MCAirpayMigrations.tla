-------------------------- MODULE MCAirpayMigrations --------------------------
(***************************************************************************)
(* AirpayMigrations and the splitter of its files, for TLC.                *)
(***************************************************************************)
EXTENDS SqlStatementsProperties

(* The last file in its first version, which an edit can mend.             *)
MCOnce == {<<MaxFiles, 1>>}

(* First texts of one kind of quotation, long enough for it to begin, hold *)
(* a semicolon and end; then shorter ones that mix all kinds.              *)
AllTexts(characters, length) == UNION {[1 .. n -> characters] : n \in 0 .. length}
MCTexts ==
    <<AllTexts({"x", "semi", "$"}, 8) \cup AllTexts({"semi", "-", "nl"}, 7)
        \cup AllTexts({"E", "'", "bs", "semi"}, 6),
      AllTexts({"semi", "/", "*", "'"}, 6) \cup AllTexts({"x", "0", "$", "semi"}, 6)
        \cup AllTexts(Characters, 4)>>

(* What the property leaves out, the runner does not read as PostgreSQL:   *)
(* a comment in a comment, an escaped quote, a dollar sign in a name, and  *)
(* a dollar sign before a digit.                                           *)
Unlike ==
    {<<"/", "*", "/", "*", "*", "/", "semi", "*", "/">>,
     <<"E", "'", "bs", "'", "semi", "'">>,
     <<"x", "$", "$", "semi", "$", "$">>,
     <<"$", "0", "$", "semi", "$", "0", "$">>}

ASSUME RunnerDiffers == \A t \in Unlike : ~ Plain(t) /\ Split(t) # Written(t)
=============================================================================
