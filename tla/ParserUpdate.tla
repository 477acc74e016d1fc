---------------------------- MODULE ParserUpdate ----------------------------
(***************************************************************************)
(* The parser of one processor under the controller of the repository      *)
(* (extract_parser in sw-src/controller/ctrl_init_dataplane.h): for each   *)
(* configuration file it sets the number of levels and sends the entries   *)
(* one by one, waiting for the answer to each call.                        *)
(***************************************************************************)
EXTENDS Parser

CONSTANT Config    \* configurations: a level count and a list of entries

VARIABLES
    config,     \* the configuration sent last
    todo        \* the entries of it that are still to be sent

ctlVars == <<config, todo>>

UpdateInit == Init /\ config \in Config /\ todo = <<>>

extract_parser(c) ==
    /\ todo = <<>>
    /\ init_parser_level(c.parser_level)
    /\ config' = c /\ todo' = c.entries

SendEntry ==
    /\ todo # <<>>
    /\ modify_trans_entry(Head(todo))
    /\ todo' = Tail(todo)
    /\ UNCHANGED config

UpdateNext ==
    \/ \E c \in Config : extract_parser(c)
    \/ SendEntry
    \/ (ModifyAct \/ Parse) /\ UNCHANGED ctlVars

UpdateSpec == UpdateInit /\ [][UpdateNext]_<<vars, ctlVars>>

(* rP4-compiler/testcases/README.md: an online update clears the parser    *)
(* and inserts the new entries.  So a packet that no update meets must be  *)
(* parsed by the entries of the configuration sent last.  It need not:     *)
(* extract_parser does not call clear_parser, and entries of the           *)
(* configuration before stay in their slots.                               *)
UpdateReplaces ==
    /\ pp = "apply" /\ quiet /\ todo = <<>>
    /\ ~Applies(Unset, cur_state, key)
    => \E n \in DOMAIN config.entries :
          /\ config.entries[n].level = lvl
          /\ Applies(config.entries[n], cur_state, key)
          /\ act[lvl][idx] = ActionOf(config.entries[n])
=============================================================================
