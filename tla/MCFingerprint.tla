--------------------------- MODULE MCFingerprint ---------------------------
EXTENDS Fingerprint

CONSTANTS f1, f2

MCThreads == {main, deletion}
MCFingers == {f1, f2}

\* An empty library, and one that holds a model.
MCLibraries ==
    {[p \in Pages |-> Nothing], [p \in Pages |-> IF p = 1 THEN Model(f1) ELSE Nothing]}

\* IMAGEFAIL and BADLOCATION are treated like codes that are here.
MCAnswers ==
    {<<c>> : c \in {FINGERPRINT_OK, FINGERPRINT_PACKETRECIEVER, FINGERPRINT_NOFINGER, FINGERPRINT_IMAGEMESS,
                    FINGERPRINT_NOTFOUND, FINGERPRINT_ENROLLMISMATCH, FINGERPRINT_DELETEFAIL,
                    FINGERPRINT_FLASHERR}}
    \cup {<<FINGERPRINT_OK, p>> : p \in SearchPages}
MCErrors == {<<FINGERPRINT_TIMEOUT>>}
=============================================================================
