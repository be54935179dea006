------------------------------ MODULE MCExport ------------------------------
(***************************************************************************)
(* Export with two validators and one text that is no address.             *)
(***************************************************************************)
EXTENDS Export

MCValidators == {<<7>>, <<8, 9>>}

MCMalformed == {<<>>}

=============================================================================
