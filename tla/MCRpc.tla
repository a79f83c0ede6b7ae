------------------------------- MODULE MCRpc --------------------------------
(* Rpc with the procedures extent_smain.cc registers, numbered from 1.     *)
(* Beside the right calls there is one with its arguments in the wrong     *)
(* order, one with an argument missing and one that takes an attr for the  *)
(* string of get.  An extent's id is <<high, low>>.                        *)
EXTENDS Rpc

PUT == 1
GET == 2
GETATTR == 3
REMOVE == 4
id1 == <<0, 1>>

MCProcs == [p \in {PUT, GET, GETATTR, REMOVE} |->
              CASE p = PUT     -> [args |-> <<"extentid_t", "string">>, ret |-> "int"]
                [] p = GET     -> [args |-> <<"extentid_t">>, ret |-> "string"]
                [] p = GETATTR -> [args |-> <<"extentid_t">>, ret |-> "attr"]
                [] p = REMOVE  -> [args |-> <<"extentid_t">>, ret |-> "int"]]

MCCall(p, types, args, ret) == [proc |-> p, types |-> types, args |-> args, ret |-> ret]
MCCalls == {MCCall(PUT, <<"extentid_t", "string">>, <<id1, <<2, 3>>>>, "int"),
            MCCall(PUT, <<"string", "extentid_t">>, <<<<2>>, id1>>, "int"),
            MCCall(GET, <<"extentid_t">>, <<id1>>, "string"),
            MCCall(GET, <<"extentid_t">>, <<id1>>, "attr"),
            MCCall(GETATTR, <<"int">>, <<<<1>>>>, "attr"),
            MCCall(REMOVE, <<"extentid_t">>, <<id1>>, "int")}

(* put and remove leave the int they are given as it was: uninitialized.   *)
MCResults == [int    |-> {<<0>>, <<5>>},
              string |-> {<<>>, <<2, 3>>, <<4, 0, 0, 0>>},
              attr   |-> {<<2, 1, 1, 1, 3>>}]
MCStatuses == {0, 2}
=============================================================================
