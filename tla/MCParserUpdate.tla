--------------------------- MODULE MCParserUpdate ---------------------------
(***************************************************************************)
(* The parser of MCParser under a controller with two configurations of    *)
(* basic.json's shape, one with an entry for a key, one without it.        *)
(***************************************************************************)
EXTENDS MCParser, ParserUpdate

Start == Entry(0, 0, 0, 0, 1, 2, 1, <<Field(1, 1)>>, 2)
Accept == Entry(1, 1, 0, 0, 0, 0, 0, <<>>, 0)
KeyTwo == Entry(1, 1, 2, 15, 2, 5, 2, <<IsValid(2)>>, 2)

MCConfig ==
    {[parser_level |-> 2, entries |-> <<Start, KeyTwo, Accept>>],
     [parser_level |-> 2, entries |-> <<Start, Accept>>]}
=============================================================================
