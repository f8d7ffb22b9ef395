------------------------------- MODULE MCSsl -------------------------------
EXTENDS Ssl

MCOffers == {<<>>, <<"h2">>, <<"h3", "h2">>}
=============================================================================
