----------------------------- MODULE AppCommands -----------------------------
(***************************************************************************)
(* The app-command indirection of the job cell's command dispatcher       *)
(* (server_commands.py):                                                   *)
(*   ServerCommands.register_app_command   adds a topic to the class-wide  *)
(*                                         app_cmd_registry,               *)
(*   ServerCommands.get_app_command        looks a topic up, falling back  *)
(*                                         to the "*" default,             *)
(*   AppCommandProcessor.process           the reply to an APP_COMMAND.    *)
(* The components that register topics are not under src/; they call      *)
(* register_app_command one after another while the job is set up, so a  *)
(* registry is the result of a sequence of registrations.  These are pure  *)
(* operators, checked against what spec 4.5 says of the indirection over   *)
(* every sequence of registrations up to a bound.                          *)
(***************************************************************************)
EXTENDS Naturals, Sequences, SequencesExt

CONSTANTS
    AppTopic,    \* topics components register, the default "*" among them
    AppFunc,     \* the (cmd_func, args, kwargs) triples - model values
    MaxAppRegs   \* bound: registrations in one job

Default == "*"
NoTopic == ""            \* a request without a TOPIC
NoFunc  == "none"        \* dict.get of a topic not registered

\* What the registered function does with the request.
Outcomes == {"dict", "not_dict", "raises"}

\* Fault variant of RegisterAppCommand: the duplicate check left out.
RegisterAppCommandOverwrite(reg, r) == (r.topic :> r.func) @@ reg

\* register_app_command: a topic already in the registry raises
\* "duplicate app command topic" and the registry is left as it was.
RegisterAppCommand(reg, r) ==
    IF r.topic \in DOMAIN reg THEN reg ELSE (r.topic :> r.func) @@ reg

\* The registry after the registrations regs, made one call at a time.
RECURSIVE AppCmdRegistry(_, _)
AppCmdRegistry(reg, regs) ==
    IF regs = <<>> THEN reg
    ELSE AppCmdRegistry(RegisterAppCommand(reg, Head(regs)), Tail(regs))

\* get_app_command: the topic's own entry, else the "*" entry, else None.
GetAppCommand(reg, t) ==
    IF t \in DOMAIN reg THEN reg[t]
    ELSE IF Default \in DOMAIN reg THEN reg[Default] ELSE NoFunc

\* AppCommandProcessor.process: the return code of the reply, and the
\* function that ran ("none" if none did).
AppCommandReply(reg, t, out) ==
    LET f == GetAppCommand(reg, t) IN
    CASE t = NoTopic      -> [rc |-> "BAD_REQUEST_DATA", ran |-> NoFunc]
      [] f = NoFunc       -> [rc |-> "BAD_REQUEST_DATA", ran |-> NoFunc]
      [] out = "dict"     -> [rc |-> "OK", ran |-> f]
      [] OTHER            -> [rc |-> "EXECUTION_EXCEPTION", ran |-> f]

-----------------------------------------------------------------------------
(* The indirection as spec 4.5 and 7 describe it *)

Registration == [topic : AppTopic, func : AppFunc]

\* The function of the first registration of topic x in regs, if any.
FirstRegistered(regs, x) ==
    LET i == SelectInSeq(regs, LAMBDA r : r.topic = x)
    IN IF i = 0 THEN NoFunc ELSE regs[i].func

\* "looks up a registered (function, args) triple by topic string, falling
\* back to a wildcard default if no exact topic match exists - duplicate
\* topic registration must be rejected at registration time"; an unknown
\* topic is a protocol error, a handler that throws an execution error.
SpecAppReply(regs, t, out) ==
    LET exact == FirstRegistered(regs, t)
        f     == IF exact # NoFunc THEN exact ELSE FirstRegistered(regs, Default)
    IN IF t = NoTopic \/ f = NoFunc
          THEN [rc |-> "BAD_REQUEST_DATA", ran |-> NoFunc]
          ELSE [rc |-> IF out = "dict" THEN "OK" ELSE "EXECUTION_EXCEPTION",
                ran |-> f]

\* Over every sequence of up to MaxAppRegs registrations (duplicates,
\* the default before or after a topic, re-registrations of "*"), every
\* request topic and every outcome of the function, the reply of the job
\* cell is the one the spec describes: the first registration of a topic
\* is the one that stays, an exact topic wins over the default.
AppCommandMatchesSpec ==
    \A regs \in SeqOf(Registration, MaxAppRegs),
       t \in AppTopic \cup {"t_unregistered", NoTopic}, out \in Outcomes :
        AppCommandReply(AppCmdRegistry(<<>>, regs), t, out) = SpecAppReply(regs, t, out)
=============================================================================
