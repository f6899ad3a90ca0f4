----------------------------- MODULE MCSession -----------------------------
(* Model-checking instance of Session, and with it of CodeBlocks, Streams and *)
(* Tracing.  They share nothing; part says which of them a behaviour is of.   *)
EXTENDS Session

CONSTANTS
  Name, NoCode, Spare, CODESIZE, Lengths,
  Target, MaxForms, MaxStrings, MaxKinds,
  Function, Closures, NoName, TRACEMAX, BACKTRACESIZE, Modulus, Nested, MaxDepth, MaxChanges

VARIABLES
  part,
  MyCode, code, GlobalEnv, at, var, length, origin, spoilt,
  used, to, open, strings, freed, went, failed,
  TraceFn, TraceDepth, Backtrace, TraceStart, TraceTop, BACKTRACE, active, changes,
  missed, caught, retraced, switched, overrun

Blocks == INSTANCE CodeBlocks
Opened == INSTANCE Streams
Traces == INSTANCE Tracing WITH Name <- Function, MaxCalls <- Nested

ASSUME PartsAssumption ==
  Blocks!CodeAssumption /\ Opened!StreamAssumption /\ Traces!TraceAssumption

blocks == <<MyCode, code, GlobalEnv, at, var, length, origin, spoilt>>
opened == <<used, to, open, strings, freed, went, failed>>
traces == <<TraceFn, TraceDepth, Backtrace, TraceStart, TraceTop, BACKTRACE, active,
            changes, missed, caught, retraced, switched, overrun>>
partvars == <<part, vars, blocks, opened, traces>>

\* Which kinds of streams are used matters only where they are.
IdleStreams == /\ used = {} /\ to = "idle" /\ open = <<>> /\ strings = 0
               /\ freed = {} /\ went = <<>> /\ failed = FALSE

PartInit ==
  /\ part \in {"forms", "blocks", "opened", "traces"}
  /\ Init /\ Blocks!Init /\ Traces!Init
  /\ IF part = "opened" THEN Opened!Init ELSE IdleStreams

PartNext ==
  \/ part = "forms" /\ Next /\ UNCHANGED <<part, blocks, opened, traces>>
  \/ part = "blocks" /\ Blocks!Next /\ UNCHANGED <<part, vars, opened, traces>>
  \/ part = "opened" /\ Opened!Next /\ UNCHANGED <<part, vars, blocks, traces>>
  \/ part = "traces" /\ Traces!Next /\ UNCHANGED <<part, vars, blocks, opened>>

\* What CodeBlocks asks for, of the behaviours that are its own.
PartSpec == PartInit /\ [][PartNext]_partvars
            /\ WF_blocks(part = "blocks" /\ (Blocks!Compact \/ Blocks!Compacted))

\* The properties of the parts, as their modules state them; those of Session are
\* its own.
CodeIntact     == Blocks!TypeOK /\ Blocks!RoomLeft /\ Blocks!CodeIntact
CompactionEnds == Blocks!CompactionEnds
StreamsDeliver == part = "opened" => Opened!StreamsDeliver
TracesTell     == Traces!TypeOK /\ Traces!DepthsCount /\ Traces!NamesTheCalls

\* What does not hold, beside what Session says of itself.
NamesNoOthers    == Traces!NamesNoOthers
RunsItsCode      == Blocks!RunsItsCode
OutputReturned   == part = "opened" => Opened!OutputReturned
WritesLiveStrings == part = "opened" => Opened!WritesLiveStrings
PinsRelease      == part = "opened" => Opened!PinsRelease
=============================================================================
