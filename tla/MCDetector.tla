----------------------------- MODULE MCDetector -----------------------------
(* A small instance of Detector for TLC: payloads of two fields, of which  *)
(* a rule names the second.                                                *)
EXTENDS Detector

CONSTANTS free, named, ghost

MCNames == {free, named}

MCFieldRules == {named}

Fields(f, n) == [x \in MCNames |-> IF x = free THEN f ELSE n]

(* The first two differ in what the rules remove only, so that they share  *)
(* an entry; the third keeps a rest in the field the rule names; the last  *)
(* is too long to be sent to the model.                                    *)
MCArguments ==
    {Fields("secret", "plain"), Fields("secret", "secret"),
     Fields("pattern", "both"), Fields("long", "plain")}

(* Nothing; or a finding beside one whose path the payload does not have.  *)
MCFindings == {{}, {free, ghost}}
=============================================================================
