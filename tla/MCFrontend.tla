------------------------------ MODULE MCFrontend ------------------------------
(* Four parts of the front end and its tools that share no state, each explored *)
(* on its own: `part' says which, and the others stay in one initial state.      *)
EXTENDS MCTentativeParsing, MCPreamble, MCSourceManager, MCReplacements

VARIABLE part

\* The state of the preamble while another part is explored.
PreambleRests ==
    /\ disk = [p \in Paths |-> [there |-> TRUE, stamp |-> 0]]
    /\ mainText = bare /\ countdown = 0

FrontendInit ==
    /\ part \in {"tokens", "preamble", "locations", "replacements"}
    /\ Init /\ PreambleInit /\ SourceInit /\ ReplacementsInit
    /\ part # "preamble" => PreambleRests

FrontendNext ==
    /\ UNCHANGED part
    /\ \/ /\ part = "tokens" /\ Next
          /\ UNCHANGED <<preambleVars, sourceVars, replacementVars>>
       \/ /\ part = "preamble" /\ PreambleNext
          /\ UNCHANGED <<vars, sourceVars, replacementVars>>
       \/ /\ part = "locations" /\ SourceNext
          /\ UNCHANGED <<vars, preambleVars, replacementVars>>
       \/ /\ part = "replacements" /\ ReplacementsNext
          /\ UNCHANGED <<vars, preambleVars, sourceVars>>

FrontendSpec ==
    FrontendInit /\ [][FrontendNext]_<<part, vars, preambleVars, sourceVars, replacementVars>>

=============================================================================
