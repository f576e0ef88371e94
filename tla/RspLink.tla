------------------------------- MODULE RspLink -------------------------------
(***************************************************************************)
(* What a debugger may expect of the packet layer under it: it issues a    *)
(* command, the stub executes that command and no other, and the answer it *)
(* gets is that command's.  On a line that has lost or changed a character *)
(* a command may be executed again, or given up without an answer.         *)
(***************************************************************************)
EXTENDS Integers

CONSTANTS
  Commands,
  Fits(_),     (* the commands the stub has room for                       *)
  AnswerTo(_)

VARIABLES
  cmd,      (* the command under way, or << >>                             *)
  ran,      (* how often the stub has executed it: never, once, more often *)
  answer,   (* what the debugger got for the last command, or << -1 >>       *)
  failed    (* the line has failed                                         *)

linkVars == << cmd, ran, answer, failed >>

LinkInit == cmd = << >> /\ ran = 0 /\ answer = << -1 >> /\ failed = FALSE

Issue ==
  /\ cmd = << >>
  /\ cmd' \in Commands
  /\ ran' = 0
  /\ answer' = << -1 >>
  /\ UNCHANGED failed

Execute ==
  /\ Fits(cmd)
  /\ ran = 0 \/ failed
  /\ ran' = IF ran = 0 THEN 1 ELSE 2
  /\ UNCHANGED << cmd, answer, failed >>

Answer ==
  /\ cmd # << >>
  /\ ran > 0
  /\ answer' = AnswerTo(cmd)
  /\ cmd' = << >>
  /\ UNCHANGED << ran, failed >>

GiveUp ==
  /\ cmd # << >>
  /\ failed \/ ~Fits(cmd)
  /\ cmd' = << >>
  /\ UNCHANGED << ran, answer, failed >>

Fail == failed' = TRUE /\ UNCHANGED << cmd, ran, answer >>

LinkNext == Issue \/ Execute \/ Answer \/ GiveUp \/ Fail

LinkSpec == LinkInit /\ [][LinkNext]_linkVars

=============================================================================
