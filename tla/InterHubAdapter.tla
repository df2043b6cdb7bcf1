---------------------------- MODULE InterHubAdapter ----------------------------
(***************************************************************************)
(* What Supplier Hub reads in the body of an InterHub answer that came     *)
(* with HTTP 200: InterHubProvider._normalize and provider_state, and the  *)
(* part of _save_result that looks at the answer alone.  A body is the     *)
(* JSON that json.loads returned, reduced to the two fields that are       *)
(* tested and to whether a code is found in it; an empty body, a list or a *)
(* foreign object has neither field.                                       *)
(*                                                                         *)
(* Sources: api/hub/providers/interhub.py, api/hub/service.py.             *)
(***************************************************************************)
EXTENDS Naturals

Success == {"true", "false", "missing", "text"}           \* a text is any JSON value but a Boolean
Status == {"zero", "one", "two", "missing", "text"}       \* "two" is any other integer

Body == [success : Success, status : Status, code : BOOLEAN]

(* bool(success): text counts as a success.  int(status or 0): a missing   *)
(* status, and one that is no number, counts as 0.  (An empty text, 0 and  *)
(* an empty list are as good as a missing success, and the text "1" as the *)
(* number: they would add bodies, but nothing a worker can read in them.)  *)
Truth(b) == b.success \in {"true", "text"}
Number(b) == CASE b.status = "one" -> 1 [] b.status = "two" -> 2 [] OTHER -> 0

(* Everything that is not a success in progress or completed has failed.   *)
Slip_PendingIsFailed(b) == IF Truth(b) /\ Number(b) = 0 THEN "SUCCEEDED" ELSE "FAILED"
ProviderState(b) ==
    CASE Truth(b) /\ Number(b) = 1 -> "PROCESSING"
      [] Truth(b) /\ Number(b) = 0 -> "SUCCEEDED"
      [] OTHER -> "FAILED"

(* A topup's answer must have both fields in their own types.              *)
Typed(b) == b.success \in {"true", "false"} /\ b.status \in {"zero", "one", "two"}

Slip_TopupsUntyped(topup, b) == TRUE
Recognised(topup, b) == topup => Typed(b)

(* A voucher sold without its code is told apart from a success; a topup   *)
(* has no code to wait for.                                                *)
Read(topup, b) ==
    CASE ~ Recognised(topup, b) -> "unrecognised"
      [] Recognised(topup, b) /\ ProviderState(b) = "PROCESSING" -> "processing"
      [] Recognised(topup, b) /\ ProviderState(b) = "SUCCEEDED" ->
            IF topup \/ b.code THEN "succeeded" ELSE "no_code"
      [] OTHER -> "failed"

-----------------------------------------------------------------------------
(* How InterHub words what it has to say, and the bodies that say nothing. *)

Words == [processing |-> {b \in Body : b.success = "true" /\ b.status = "one"},
          succeeded |-> {b \in Body : b.success = "true" /\ b.status = "zero" /\ b.code},
          no_code |-> {b \in Body : b.success = "true" /\ b.status = "zero" /\ ~ b.code},
          failed |-> {b \in Body : Typed(b) /\ (b.success = "true" => b.status = "two")}]

Illegible == {b \in Body : ~ Typed(b)}
=============================================================================
