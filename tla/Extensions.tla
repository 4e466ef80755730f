------------------------------ MODULE Extensions ------------------------------
(***************************************************************************)
(* Extensions of one workspace: their installation when the program starts *)
(* (extensions/catalog.rs, tools/registry.rs), and the calls of what was   *)
(* installed: tools of a stdio MCP server (McpClient) and a custom tool    *)
(* (Supervisor). An extension that fails is recorded as disabled and the   *)
(* next one is installed.                                                  *)
(***************************************************************************)
EXTENDS Capability, McpClient, Supervisor, FiniteSets, Functions

CONSTANTS Configs,       \* configurations the program may be started with
          Unregistrable  \* names with white space around them

\* What configuration and manifest of an entry are made of.
EntryOK(e) == /\ e.effect \subseteq Effects /\ (\A f, g \in e.effect : f = g)
              /\ e.declared \in Effects
              /\ Len(e.tools) \in Nat /\ e.restarts \in Nat

ASSUME ConfigsAssumption ==
    \A c \in Configs : /\ Len(c.entries) \in Nat
                       /\ \A i \in 1..Len(c.entries) : EntryOK(c.entries[i])

VARIABLES config,     \* [entries, safe, custom, ceiling]
          pos,        \* the entry that is being installed
          phase,      \* where its installation is
          attempt,    \* restarts of its server so far
          registry,   \* name -> [owner, declared, effect, trusted] of the registered tools
          summaries   \* entry number -> [enabled, tools]

installVars == <<config, pos, phase, attempt, registry, summaries>>
vars == <<installVars, mcpVars, runVars>>

Entry == config.entries[pos]
Started == pos > Len(config.entries)

Phases == {"next", "initialize", "list",
           "http_initialize", "http_initialize_body", "http_list", "http_list_body"}

TypeOK ==
    /\ McpTypeOK /\ RunTypeOK
    /\ pos \in 1..(Len(config.entries) + 1)
    /\ phase \in Phases /\ (Started => phase = "next")
    /\ attempt \in 0..5
    /\ \A n \in DOMAIN registry : registry[n].owner \in 1..Len(config.entries)
    /\ DOMAIN summaries \subseteq 1..(pos - 1)

Init ==
    /\ McpInit /\ RunInit
    /\ config \in Configs
    /\ pos = 1 /\ phase = "next" /\ attempt = 0
    /\ registry = <<>> /\ summaries = <<>>

-----------------------------------------------------------------------------
(* Registering. *)

\* "mcp/<server>/<tool>", "custom/<tool>".
NameOf(e, tool) == <<IF e.kind = "custom" THEN "custom" ELSE e.id, tool>>

\* ToolRegistry::register. Faulty form first: a later tool takes the name.
RefusesPadded(reg, e, tool) == tool \in Unregistrable
Refuses(reg, e, tool) == tool \in Unregistrable \/ NameOf(e, tool) \in DOMAIN reg

FinalEffect(e) == IF e.kind = "custom" THEN EffectWith(e.declared, e.effect)
                  ELSE CHOOSE f \in e.effect : TRUE

\* The loop over the listed tools: it ends at the first that is refused, and
\* what is registered by then stays.
Accepted(e, tools) ==
    LET fits == {n \in 0..Len(tools) :
                    \A i \in 1..n :
                       /\ ~Refuses(registry, e, tools[i])
                       /\ \A k \in 1..(i - 1) : NameOf(e, tools[k]) # NameOf(e, tools[i])}
    IN  CHOOSE n \in fits : \A m \in fits : m <= n
Registered(e, tools, n) ==
    LET new == {NameOf(e, tools[i]) : i \in 1..n}
    IN  [name \in DOMAIN registry \cup new |->
           IF name \in new
           THEN [owner |-> pos, declared |-> IF e.kind = "custom" THEN {e.declared} ELSE {},
                 effect |-> FinalEffect(e), trusted |-> e.trusted]
           ELSE registry[name]]

\* required_effect, required_recovery; then, per tool, the ceiling.
HasMetadata(e) == e.effect # {} /\ e.recovery # {}
Registrable(e) == IF WithinCeiling(FinalEffect(e), config.ceiling) THEN Accepted(e, e.tools) ELSE 0

NextEntry == pos' = pos + 1 /\ phase' = "next" /\ attempt' = 0 /\ UNCHANGED config
\* install_into: Ok pushes the summary, Err a disabled one.
Done(n, tools) ==
    /\ registry' = Registered(Entry, tools, n)
    /\ summaries' = [i \in DOMAIN summaries \cup {pos} |->
                       IF i # pos THEN summaries[i]
                       ELSE IF n = Len(tools)
                       THEN [enabled |-> TRUE, tools |-> {NameOf(Entry, tools[k]) : k \in 1..n}]
                       ELSE [enabled |-> FALSE, tools |-> {}]]
    /\ NextEntry
Disabled == Done(0, <<NoOne>>)

-----------------------------------------------------------------------------
(* Installing one entry. *)

At(p) == ~Started /\ phase = p
Enabled == Entry.enabled /\ Entry.applies

SkipEntry ==
    /\ At("next") /\ ~Enabled
    /\ NextEntry
    /\ UNCHANGED <<registry, summaries, mcpVars, runVars>>

\* load_custom_manifest: a manifest that is there, short enough and parses.
Loads(e) == e.valid

\* install_custom, from_manifest: everything is checked and registered at once.
CustomRefused ==
    LET e == Entry
    IN  \/ config.safe \/ ~config.custom \/ ~e.trusted
        \/ ~Loads(e) \/ e.recovery = {}
        \/ ~WithinCeiling(EffectWith(e.declared, e.effect), config.ceiling)
InstallCustom ==
    /\ At("next") /\ Enabled /\ Entry.kind = "custom"
    /\ IF CustomRefused THEN Disabled ELSE Done(Accepted(Entry, Entry.tools), Entry.tools)
    /\ UNCHANGED <<mcpVars, runVars>>

\* install_mcp_stdio: refused, or the server is started; initialize is sent.
RefuseMcp ==
    /\ At("next") /\ Enabled /\ Entry.kind = "mcp" /\ (config.safe \/ ~Entry.valid)
    /\ Disabled
    /\ UNCHANGED <<mcpVars, runVars>>

StartServer ==
    /\ At("next") /\ Enabled /\ Entry.kind = "mcp" /\ ~config.safe /\ Entry.valid
    /\ Spawn
    /\ phase' = "initialize"
    /\ UNCHANGED <<config, pos, attempt, registry, summaries, runVars>>

\* A spawn that fails is tried again, at most max_restarts times; the failed
\* client is dropped, which kills its server. Faulty form first: not counted.
SpawnLimit == IF Entry.restarts < 5 THEN Entry.restarts ELSE 5
RetrySpawn(count) ==
    /\ phase = "initialize" /\ req[Setup].at = "ended"
    /\ got[Setup].is # "answer" \/ server = "down"
    /\ IF attempt < SpawnLimit
       THEN /\ Spawn /\ attempt' = count
            /\ UNCHANGED <<config, pos, phase, registry, summaries>>
       ELSE KillServer /\ Disabled
    /\ UNCHANGED runVars
SpawnAgainForever == RetrySpawn(attempt)
SpawnAgain == RetrySpawn(attempt + 1)

ListTools ==
    /\ phase = "initialize" /\ req[Setup].at = "ended" /\ got[Setup].is = "answer"
    /\ NotifyInitialized
    /\ phase' = "list"
    /\ UNCHANGED <<config, pos, attempt, registry, summaries, runVars>>

\* parse_listed_tools; an answer that is no list of tools counts as refused.
Listed == got[Setup].is = "answer"

\* register_stdio_tools. The client lives on in the tools that were registered,
\* in those of an extension that ends as disabled too; without any it is dropped.
RegisterTools ==
    /\ phase = "list" /\ req[Setup].at = "ended"
    /\ IF Listed /\ HasMetadata(Entry)
       THEN LET n == Registrable(Entry)
            IN  Done(n, Entry.tools) /\ IF n = 0 THEN KillServer ELSE UNCHANGED mcpVars
       ELSE Disabled /\ KillServer
    /\ UNCHANGED runVars

\* install_mcp_http: the URL, initialize and the list are checked in turn.
InstallHttp ==
    /\ At("next") /\ Enabled /\ Entry.kind = "mcp_http"
    /\ \/ ~Entry.valid /\ Disabled
       \/ Entry.valid /\ phase' = "http_initialize" /\ UNCHANGED <<config, pos, attempt, registry, summaries>>
    /\ UNCHANGED <<mcpVars, runVars>>

\* mcp_http_call: the time limit, or an error, before the head of the answer is there.
HttpFails ==
    /\ At("http_initialize") \/ At("http_list")
    /\ Disabled
    /\ UNCHANGED <<mcpVars, runVars>>

\* The head of the answer comes. The wait for its body has no time limit, and its
\* cancellation token is nobody's.
HttpHead ==
    /\ \/ At("http_initialize") /\ phase' = "http_initialize_body"
       \/ At("http_list") /\ phase' = "http_list_body"
    /\ UNCHANGED <<config, pos, attempt, registry, summaries, mcpVars, runVars>>

\* The body has come, or the connection broke.
HttpInitialize ==
    /\ At("http_initialize_body")
    /\ \/ Disabled
       \/ phase' = "http_list" /\ UNCHANGED <<config, pos, attempt, registry, summaries>>
    /\ UNCHANGED <<mcpVars, runVars>>

HttpList ==
    /\ At("http_list_body")
    /\ Disabled \/ (HasMetadata(Entry) /\ Done(Registrable(Entry), Entry.tools))
    /\ UNCHANGED <<mcpVars, runVars>>

RefuseKind ==
    /\ At("next") /\ Enabled /\ Entry.kind \notin {"custom", "mcp", "mcp_http"}
    /\ Disabled
    /\ UNCHANGED <<mcpVars, runVars>>

InstallStep ==
    \/ SkipEntry \/ RefuseKind \/ InstallCustom
    \/ RefuseMcp \/ StartServer \/ SpawnAgain \/ ListTools \/ RegisterTools
    \/ InstallHttp \/ HttpFails

\* What an HTTP server decides the time of.
HttpStep == HttpHead \/ HttpInitialize \/ HttpList

-----------------------------------------------------------------------------
(* Calls, which the policy lets through at once or after an approval. *)

Callable(kind) == {n \in DOMAIN registry : /\ config.entries[registry[n].owner].kind = kind
                                           /\ Decision(registry[n].effect, registry[n].trusted) # "deny"}

McpStep ==
    \/ \E c \in Calls : \/ Started /\ Callable("mcp") # {} /\ CallTool(c)
                        \/ DropCall(c)
    \/ \E r \in Requesters : ClientStep(r)
    \/ ServerStep \/ ServerNotifies \/ ServerExits

CustomStep ==
    \/ \E j \in Jobs : \/ Started /\ Callable("custom") # {} /\ Execute(j)
                       \/ JobStep(j) \/ AwaitPipes(j) \/ DropJob(j) \/ ChildActs(j) \/ ChildExits(j)
                       \/ Callable("custom") # {} /\ CancelJob(j)
    \/ Callable("custom") # {} /\ ReplaceBinary

Next ==
    \/ InstallStep \/ HttpStep
    \/ McpStep /\ UNCHANGED <<installVars, runVars>>
    \/ CustomStep /\ UNCHANGED <<installVars, mcpVars>>

Spec == Init /\ [][Next]_vars

\* The program's own steps are taken, those of its timers among them: the one of a
\* stdio call, of an HTTP request until its answer begins, of a child that runs. No
\* server and no child has to do anything. The supervisor is looked at by itself: that
\* the runtime drops a call of a custom tool after its own time limit is not assumed.
FairSpec ==
    /\ Spec
    /\ WF_vars(InstallStep)
    /\ WF_vars(\E r \in Requesters : ClientStep(r) /\ UNCHANGED <<installVars, runVars>>)
    /\ \A c \in Calls : WF_vars(DropCall(c) /\ UNCHANGED <<installVars, runVars>>)
    /\ \A j \in Jobs : WF_vars(JobStep(j) /\ UNCHANGED <<installVars, mcpVars>>)

-----------------------------------------------------------------------------
(* Properties. *)

\* A summary tells the truth about the registry: every capability it lists is
\* registered, and by this extension, however the names of extensions collide
\* (install_into, ToolRegistry::register).
SummariesOwnTheirTools ==
    \A i \in DOMAIN summaries : \A n \in summaries[i].tools :
        n \in DOMAIN registry /\ registry[n].owner = i

\* What runs without an approval only observes, by every declaration there is of
\* it: neither a manifest nor an override can talk a stricter one down. Nothing
\* is above the workspace's ceiling.
UnaskedToolsObserve ==
    \A n \in DOMAIN registry :
        LET t == registry[n]
        IN  /\ WithinCeiling(t.effect, config.ceiling)
            /\ Decision(t.effect, t.trusted) = "allow" =>
                  t.declared \cup config.entries[t.owner].effect \subseteq {"observe"}

\* The installation waits for a server: for the rest of an answer over HTTP, or for an
\* answer of a stdio server that is running.
AwaitsServer ==
    \/ phase \in {"http_initialize_body", "http_list_body"}
    \/ phase \in {"initialize", "list"} /\ server = "up" /\ req[Setup].at = "wait" /\ outbox = <<>>

\* Nothing but one server that stays silent can keep the program from coming up:
\* not a refused extension, not servers that exit or answer with errors time and
\* again, whatever is configured after them (install_into goes on, spawns are counted).
StartupEndsOrAwaits == <>Started \/ <>[]AwaitsServer

\* What docs/phases/v0.4-extensibility.md says of the startup: a failed extension
\* does not prevent it.
StartupEnds == <>Started

\* No call of an MCP tool is stuck, not even behind another thread's call to a
\* server that has gone silent (McpTool::execute).
CallsEnd == \A c \in Calls : Active(c) ~> ~Active(c)

\* The supervisor gives up on a child that keeps failing or running: its call ends,
\* or one attempt hangs for good in the write to a child that does not read or in the
\* read of pipes that somebody keeps open (run_once, invoke).
JobsEnd == \A j \in Jobs : <>[]~JobActive(j) \/ <>[](job[j].at \in {"stdin", "drain"})

\* A tool with side effects is not tried again when it may have acted: its
\* outcome is unknown after a timeout or an error.
SideEffectNotRepeated ==
    \A n \in Callable("custom") : registry[n].effect # "observe" => \A j \in Jobs : acts[j] < 2
=============================================================================
