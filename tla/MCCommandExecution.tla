------------------------- MODULE MCCommandExecution -------------------------
(* Instances of CommandExecution with the procedures of the program.       *)
EXTENDS CommandExecution, Procedures

SoundNames == DOMAIN SoundProcedures
ForgetfulNames == DOMAIN ForgetfulProcedures
EagerNames == DOMAIN EagerProcedures
AllNames == DOMAIN AllProcedures
=============================================================================
