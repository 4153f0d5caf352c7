----------------------------- MODULE MCServerCells -----------------------------
(* Model-checking instance of ServerCells: job ids are model values.  The  *)
(* job cell's app-command indirection is checked here too: one topic and  *)
(* the default, two functions, up to three registrations, which covers a *)
(* duplicate of either topic and the default registered before or after. *)
EXTENDS ServerCells

MCAppTopic   == {"t1", "*"}
MCAppFunc    == {"f1", "f2"}
MCMaxAppRegs == 3

App == INSTANCE AppCommands WITH AppTopic <- MCAppTopic, AppFunc <- MCAppFunc,
                                 MaxAppRegs <- MCMaxAppRegs

\* An APP_COMMAND in a running job cell (each cell process keeps its own
\* class-wide app_cmd_registry) gets the reply spec 4.5 describes, after any
\* order of register_app_command calls: the first registration of a topic
\* stays, an exact topic wins over "*", and missing or unknown topics and
\* failing functions get their error codes.
AppCommandMatchesSpec == \A j \in cellUp : App!AppCommandMatchesSpec
=============================================================================
