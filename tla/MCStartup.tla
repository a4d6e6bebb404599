------------------------------ MODULE MCStartup ------------------------------
(***************************************************************************)
(* Startup of two containers that are deployed with settings of their own: *)
(* with mail and with half of it, with one password, another and one that  *)
(* is too short.                                                           *)
(***************************************************************************)
EXTENDS Startup, TLC

\* compose.yaml, with mail added.
Working ==
  [v \in Var |-> IF v = "SMTP_PORT" THEN "unset" ELSE "good"]

Silent == [v \in Var |-> IF v \in MailVars \cup {"SMTP_PORT"} THEN "unset" ELSE "good"]

\* Half a mail configuration stops the public site, and not the back office.
Half == [Silent EXCEPT !["NOTIFY_TO"] = "good"]

Deployments == {Working, [Half EXCEPT !["ADMIN_PASSWORD"] = "other"],
                         [Half EXCEPT !["ADMIN_PASSWORD"] = "bad"]}
=============================================================================
