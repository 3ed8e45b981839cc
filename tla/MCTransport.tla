------------------------------ MODULE MCTransport ------------------------------
(* Small values for Transport: a line of each length around MAX_BUFFER = 5, *)
(* a stray '>', and commands of every shape that parse tells apart.         *)
EXTENDS Transport

MCLines ==
  {<<"<", "R", "1", "0", "0", ">">>, <<"<", "R", ">">>, <<">">>,
   <<"<", "t", "3", "9", "1", "R", "R", ">">>, <<"<", "0", "MAIN", "<", "Z", ">">>}

MCCommands ==
  {<<"<", "t", "3", "126", "1", ">">>, <<"<", "t", "3", "9", "2", ">">>,
   <<"<", "W", "1", "255", ">">>, <<"<", "V", "1", "255", ">">>,
   <<"<", "1", "JOIN", ">">>, <<"<", "1", "ON", ">">>, <<"<", "f", "3", "176", ">">>,
   <<"<", "T", "1", "1", ">">>, <<"<", "D", "CABS", ">">>, <<"<", "+", "X", ">">>}
=============================================================================
