------------------------------ MODULE MCAdapter ------------------------------
EXTENDS AdapterProperties

MCWants == <<"ra", "rb">>
MCRequests == {<<"list", 1>>, <<"list", 2>>, <<"call", 2>>}
MCCalls ==
    {<<"initialize", 1>>, <<"load", 1>>, <<"model", 1>>, <<"model", 2>>, <<"state", 1>>}
    \union ({"prompt", "clear", "cancel"} \X {1, 2})
=============================================================================
