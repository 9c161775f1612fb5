---------------------------- MODULE ShellCommand ----------------------------
(***************************************************************************)
(* What the parser makes of the shell commands that reach the server.       *)
(***************************************************************************)
EXTENDS Session, Parser

(* A shell command with matching quotes and room for its arguments is      *)
(* executed as the documented grammar reads it: rejected just when some    *)
(* part between bars lacks a command or a file, and otherwise with the     *)
(* arguments and the last files of each command, also when redirections    *)
(* come first, quotes join words or a check is deferred to later parts.    *)
ParsesAsDocumented ==
  LET c == handler.command IN
  handler.at = "wait" /\ Kind(c) = "shell" /\ InScope(c) =>
    ParseLine(c) = IF Trim(c) = <<>> THEN <<>> ELSE Documented(c)

=============================================================================
