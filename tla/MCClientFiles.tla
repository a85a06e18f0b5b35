---------------------------- MODULE MCClientFiles ----------------------------
(* One file of each kind, each on its own: no file depends on another. *)
EXTENDS ClientFiles, TLC

CONSTANTS config, settings, project, mcp, shared, codex, rules, hook, skill, agents, refs

MCKind ==
    (config :> "config") @@ (settings :> "settings") @@ (project :> "project")
    @@ (mcp :> "mcp") @@ (shared :> "mcp") @@ (codex :> "mcp") @@ (rules :> "block") @@ (hook :> "hook")
    @@ (skill :> "own") @@ (agents :> "loose") @@ (refs :> "side")

Alone == {{f} : f \in Files \ {skill, agents, refs}} \cup {{skill, agents, refs}}
==============================================================================
