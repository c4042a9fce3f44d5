------------------------------- MODULE Schema -------------------------------
(***************************************************************************)
(* Loading a schema (parser/loader.go, meta.Compile): the main module is   *)
(* parsed, resolved and compiled.  The resolver parses the files of what   *)
(* the module imports and includes, one at a time, while it waits.         *)
(*                                                                         *)
(* A project is what a program may ask to be loaded: the texts its source  *)
(* opens ("main" is the one asked for) and the features it supports.       *)
(***************************************************************************)
EXTENDS Compiler

CONSTANT Projects

VARIABLES
    project,     \* the project being loaded
    phase        \* "parse", "resolve", "compile", "loaded"

vars == <<heap, parse, status, files, calls, inProgress, recursives, features, tasks, project, phase>>

\* LoadModuleWithOptions
SchemaInit ==
    /\ project \in Projects
    /\ files = project.files
    /\ features = Supported(project.features, project.otherwiseOn)
    /\ heap = <<>> /\ parse = Reading(project.files["main"], Nil) /\ status = "loading"
    /\ ResolverInit /\ tasks = <<>> /\ phase = "parse"

\* parseModule, of the main module or of one it needs: the resolver waits.
ParseFile ==
    /\ Parsing /\ ParserNext
    /\ UNCHANGED <<calls, inProgress, recursives, features, tasks, phase>>

\* Compile: resolve(root), then compiler.module(root).
StartResolve ==
    /\ phase = "parse" /\ ~Parsing
    /\ phase' = "resolve" /\ calls' = <<ModuleCall(parse.module)>>
    /\ UNCHANGED <<heap, parse, status, inProgress, recursives, features, tasks>>

ResolveStep ==
    /\ phase = "resolve" /\ ~Parsing /\ ResolverNext
    /\ UNCHANGED <<tasks, phase>>

StartCompile ==
    /\ phase = "resolve" /\ FillInRecursiveDefs
    /\ phase' = "compile" /\ tasks' = <<Do("module", Root)>>

CompileStep ==
    /\ phase = "compile" /\ CompilerNext
    /\ UNCHANGED phase

Loaded ==
    /\ phase = "compile" /\ tasks = <<>>
    /\ phase' = "loaded" /\ status' = "ok"
    /\ UNCHANGED <<heap, parse, calls, inProgress, recursives, features, tasks>>

Next ==
    /\ status = "loading"
    /\ ParseFile \/ StartResolve \/ ResolveStep \/ StartCompile \/ CompileStep \/ Loaded
    /\ UNCHANGED <<files, project>>

\* Once it has returned, nothing happens any more.
Finished == status # "loading" /\ UNCHANGED vars

(***************************************************************************)
(* The load runs in its caller's goroutine, so it goes on until it         *)
(* returns: weak fairness of Next, whose ENABLED is status = "loading"     *)
(* (the runs check that no state is a deadlock).                           *)
(***************************************************************************)
GoesOn == []<>(status # "loading") \/ []<><<Next>>_vars
Spec == SchemaInit /\ [][Next \/ Finished]_vars /\ GoesOn
=============================================================================
