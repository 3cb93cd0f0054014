------------------------------- MODULE Toolkit -------------------------------
(* The tools a turn may call and the rules that gate them (Tools.ts,         *)
(* Config.ts, SessionToolkit.ts): who asks a human first, who refuses, what  *)
(* a call changes, and how the tools of external servers join the local      *)
(* ones.  Pure operators, used by Facade.                                    *)
EXTENDS Integers, Sequences, FiniteSets, SequencesExt

CONSTANT Namespaced(_, _) \* the name a server's definition gets, sanitized (mcpToolName)

Rules == {"allow", "ask", "deny"}

\* An object spread over another, and an object of one key.
Over(f, g) == [x \in DOMAIN f \cup DOMAIN g |-> IF x \in DOMAIN f THEN f[x] ELSE g[x]]
Entry(key, value) == [x \in {key} |-> value]

\* AgentToolkit, by what the handler of a tool works on.
Execs == {"Bash", "read_file", "glob", "grep"}
SizedExecs == {"write_file", "edit_file"}
Lookups == {"list_skills", "load_skill", "web_fetch", "web_search",
            "search_knowledge", "todo_read", "memory_read"}
Writers == {"todo_write", "memory_write", "memory_delete"}
Unguarded == {"GetCurrentTime", "SpawnSubagent", "has_secret",
              "request_secret", "create_scheduled_job"}
LocalTools == Execs \cup SizedExecs \cup Lookups \cup Writers \cup Unguarded

\* Tools declared without needsApproval.
NeverAsk == {"GetCurrentTime", "SpawnSubagent", "has_secret"}

DefaultToolRules ==
  [t \in {"Bash", "request_secret", "create_scheduled_job", "memory_write", "memory_delete"}
     |-> "ask"]

ResolveRule(rules, tool) == IF tool \in DOMAIN rules THEN rules[tool] ELSE "allow"

\* The configuration in force: what the session stores over the defaults.
ResolveConfig(stored) ==
  [rules |-> Over(stored.rules, DefaultToolRules), cap |-> stored.cap, servers |-> stored.servers]

MergeToolRule(stored, tool, rule) == [stored EXCEPT !.rules = Over(Entry(tool, rule), @)]

MergeBudget(stored, cap) == [stored EXCEPT !.cap = cap]

FailClosed == {"memory_write", "memory_delete"}

\* Mutant: every "ask" becomes "allow".
CoerceOpen(rules) ==
  [t \in DOMAIN rules |-> IF rules[t] = "ask" THEN "allow" ELSE rules[t]]

\* autoApproveRules: a client of the facade cannot approve anything.
AutoApproveRules(rules) ==
  [t \in DOMAIN rules |->
     IF rules[t] # "ask" THEN rules[t] ELSE IF t \in FailClosed THEN "deny" ELSE "allow"]

NeedsApproval(rules, tool) == tool \notin NeverAsk /\ ResolveRule(rules, tool) = "ask"

-----------------------------------------------------------------------------
(* The handlers: the answer of a call and what it changed.  A handler never  *)
(* fails: every error is an answer.                                          *)

Answer(status, effect) == [status |-> status, effect |-> effect]
Refused == Answer("error", "none")
Either(effect) == {Answer("ok", effect), Answer("error", effect)}

\* guardExec: the command runs in the workspace, whatever it then returns.
ExecHandler(rules, tool) ==
  IF ResolveRule(rules, tool) = "deny" THEN {Refused} ELSE Either("workspace")

\* write_file and edit_file also refuse a command that is too long.
SizedExecHandler(rules, tool) == ExecHandler(rules, tool) \cup {Refused}

LookupHandler(rules, tool) ==
  IF ResolveRule(rules, tool) = "deny" THEN {Refused} ELSE Either("none")

TodoWriteHandler(rules) ==
  IF ResolveRule(rules, "todo_write") = "deny" THEN {Refused} ELSE {Answer("ok", "todos")}

\* The Memory object may refuse too: it is full, or there is no such fact.
MemoryHandler(rules, tool) ==
  IF ResolveRule(rules, tool) = "deny" THEN {Refused} ELSE {Answer("ok", "memory"), Refused}

\* No rule is read: a model call, the clock, two looks at the secrets ...
AnswerHandler == Either("none")

\* ... and the creation of a job, which may be turned down.
JobHandler == {Answer("ok", "job"), Refused}

LocalHandler(rules, tool) ==
  CASE tool \in Execs -> ExecHandler(rules, tool)
    [] tool \in SizedExecs -> SizedExecHandler(rules, tool)
    [] tool \in Lookups -> LookupHandler(rules, tool)
    [] tool = "todo_write" -> TodoWriteHandler(rules)
    [] tool \in FailClosed -> MemoryHandler(rules, tool)
    [] tool = "create_scheduled_job" -> JobHandler
    [] OTHER -> AnswerHandler

-----------------------------------------------------------------------------
(* The tools of external servers.  A server is [name, url]; what it offers   *)
(* is a sequence of definitions; Namespaced names the pair.                  *)

\* dedupeServers: the last of a name wins, at the place of the first.
DedupeServers(servers) ==
  LET Names == FoldLeft(LAMBDA ns, s : IF s.name \in ToSet(ns) THEN ns ELSE Append(ns, s.name),
                        <<>>, servers)
  IN [i \in DOMAIN Names |-> Last(SelectSeq(servers, LAMBDA s : s.name = Names[i]))]

NoMcpTools == [tools |-> <<>>, handlers |-> <<>>]

\* Mutant: the handler is set before the name is seen to be taken.
AddHandlerFirst(built, server, def, name) ==
  IF name \in DOMAIN built.handlers
    THEN [built EXCEPT !.handlers[name] = <<server, def>>]
    ELSE [tools |-> Append(built.tools, [name |-> name, of |-> <<server, def>>]),
          handlers |-> Over(Entry(name, <<server, def>>), built.handlers)]

\* One discovered definition: skipped if its name is taken.
AddTool(built, server, def, name) ==
  IF name \in DOMAIN built.handlers THEN built
  ELSE [tools |-> Append(built.tools, [name |-> name, of |-> <<server, def>>]),
        handlers |-> Over(Entry(name, <<server, def>>), built.handlers)]

\* buildSessionToolkit, from what each server answered (<<>> for one that
\* failed or was slow), in the order of the configuration.
BuildMcpTools(servers, answers) ==
  FoldLeft(LAMBDA built, s :
             FoldLeft(LAMBDA b, def : AddTool(b, s, def, Namespaced(s, def)),
                      built, answers[s]),
           NoMcpTools, DedupeServers(servers))

\* The handler of an external tool: the call goes to its server unless denied.
McpHandler(rules, name) ==
  IF ResolveRule(rules, name) = "deny" THEN {Refused} ELSE Either("server")
=============================================================================
