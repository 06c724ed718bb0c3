--------------------------- MODULE MCAccountsClaims ---------------------------
(* One person, who claims handles and registers keys from a browser or two.  *)
EXTENDS Accounts

OneCaller == [subject : People, email : Emails]
=============================================================================
