------------------------------ MODULE MCCbLogger ------------------------------
EXTENDS CbLogger
Schema == [k \in {MainKey} |-> "INFO"]
Tables == {rows \in [Keys -> Results] :
             rows[FileKey] \in {"DEBUG", "bad", Missing} /\ rows[MainKey] \in {"DEBUG", Missing}}
=============================================================================
