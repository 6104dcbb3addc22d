---------------------------- MODULE MCApplication ----------------------------
(* Instances of Application for TLC. *)
EXTENDS Application

CONSTANTS mail, phone

\* One input of each kind of check: ten characters, an optional mail address, any
\* text, a phone number.
FourInputs == <<"info_bizNum", "info_email", "info_serviceUrl", "manager_tel">>
TwoAgreements == <<"agree_service", "agree_privacy">>
=============================================================================
