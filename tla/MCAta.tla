--------------------------------- MODULE MCAta ---------------------------------
(* A disk of four sectors of two words; a read asks for three at a time.     *)
EXTENDS Ata

MCCalls == {<<0, 4>>, <<2, 2>>}
=============================================================================
