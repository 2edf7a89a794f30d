------------------------- MODULE AttributeCertificate -------------------------
(***************************************************************************)
(* Loading an X.509 attribute certificate (src/src/libstrongswan/crypto/  *)
(* ac.c): x509ac_create_from_file loads a DER chunk, and                  *)
(* x509ac_create_from_chunk allocates the object, runs parse_certificate  *)
(* over the ASN.1 objects of acObjects and, when the parse returns FALSE, *)
(* destroys the object and returns NULL.                                   *)
(*                                                                         *)
(* The ASN.1 parser and the PEM loader are collaborators that are not in  *)
(* this tree.  A blob is abstracted to what the control flow of ac.c      *)
(* depends on: the first object at which extract_object fails, the        *)
(* version, how many generalNames each directoryName holds (-1 when the   *)
(* optional object is absent).  Objects without a handler are left out:  *)
(* an extract_object failure at one of them has the effect of a failure  *)
(* at the next handled object.  What parse_certificate allocates besides  *)
(* the object (identifications, ietfAttr lists) is released by destroy on *)
(* every path and is not tracked; the chunk is.                           *)
(***************************************************************************)
EXTENDS Integers

CONSTANTS
    MaxLoads,      \* how many loads a run performs
    MaxNames       \* the most generalNames a directoryName holds

(* The objects of acObjects that parse_certificate handles, in the order  *)
(* the loop reaches them.                                                  *)
CERTIFICATE == 1
CERTIFICATE_INFO == 2
VERSION == 3
HOLDER_ISSUER == 4
HOLDER_SERIAL == 5
ENTITY_NAME == 6
ISSUER_NAME == 7
SIG_ALG == 8
NOT_BEFORE == 9
NOT_AFTER == 10
ATTRIBUTE_VALUE == 11
EXTN_VALUE == 12
SIGNATURE == 13
ROOF == 14

NameObjects == {HOLDER_ISSUER, ENTITY_NAME, ISSUER_NAME}

Blobs ==
    [failAt : CERTIFICATE .. ROOF,        \* ROOF: extract_object never fails
     version : {1, 2, 3},
     names : [NameObjects -> -1 .. MaxNames]]

VARIABLES
    chunks,     \* live DER chunks
    wildFree,   \* free() was called on an uninitialized pointer
    loads,      \* calls made so far
    last        \* history: the last call, whether its chunk held a complete
                \* v2 attribute certificate, and what it returned

vars == <<chunks, wildFree, loads, last>>

(* The optional objects are skipped by extract_object when absent.        *)
Present(b, i) == i \in NameObjects => b.names[i] # -1

(* parse_directoryName returns has_directoryName: at least one            *)
(* generalName was found.                                                  *)
parse_directoryName(b, i) == b.names[i] > 0

(* The early returns of parse_certificate: a version other than v2 (an    *)
(* absent version counts as v1) and a directoryName without any           *)
(* generalName.                                                            *)
Rejects(b, i) ==
    /\ Present(b, i)
    /\ \/ i = VERSION /\ b.version # 2
       \/ i \in NameObjects /\ ~parse_directoryName(b, i)

(* The handler of object i runs: extract_object succeeded up to it and no *)
(* earlier handler returned.                                               *)
Handled(b, i) ==
    /\ i < b.failAt
    /\ Present(b, i)
    /\ \A j \in CERTIFICATE .. i - 1 : ~Rejects(b, j)

(* parse_certificate: FALSE at an extract_object failure and at every     *)
(* early return, and FALSE again after the last object (line 606).        *)
parse_certificate(b) == FALSE

(* The blob holds a complete v2 attribute certificate.                   *)
WellFormed(b) ==
    /\ b.failAt = ROOF
    /\ \A i \in CERTIFICATE .. ROOF - 1 : ~Rejects(b, i)

(* destroy, for an object that owns the chunk: DESTROY_IF on the names,  *)
(* destroy_offset on the two lists and free(certificate.ptr), which       *)
(* releases the chunk when certificate was set.  The result is the number *)
(* of live chunks afterwards.                                              *)
destroy(certSet, chunksIn) == IF certSet THEN chunksIn - 1 ELSE chunksIn

(* x509ac_create_from_chunk, handed a chunk when chunksIn chunks are      *)
(* live: allocate the object (every field but certificate initialized),   *)
(* parse, and destroy it on failure.  The object owns the chunk: destroy  *)
(* frees it through certificate.ptr, which the handler of object 0 set.   *)
(* When extract_object failed on object 0 that field is uninitialized,    *)
(* free() is handed whatever malloc left in it (undefined behaviour) and  *)
(* the chunk stays allocated.                                              *)
x509ac_create_from_chunk(b, chunksIn) ==
    LET certSet == Handled(b, CERTIFICATE) IN
    IF parse_certificate(b)
    THEN /\ chunks' = chunksIn
         /\ UNCHANGED wildFree
         /\ last' = [wellFormed |-> WellFormed(b), result |-> "AC"]
    ELSE /\ chunks' = destroy(certSet, chunksIn)
         /\ wildFree' = (wildFree \/ ~certSet)
         /\ last' = [wellFormed |-> WellFormed(b), result |-> "NULL"]

(* x509ac_create_from_file: pem_asn1_load_file either fails, and the call *)
(* returns NULL having allocated nothing, or yields a chunk that          *)
(* x509ac_create_from_chunk takes over.                                   *)
x509ac_create_from_file_load_failed ==
    /\ loads < MaxLoads
    /\ loads' = loads + 1
    /\ last' = [wellFormed |-> FALSE, result |-> "NULL"]
    /\ UNCHANGED <<chunks, wildFree>>

x509ac_create_from_file(b) ==
    /\ loads < MaxLoads
    /\ loads' = loads + 1
    /\ x509ac_create_from_chunk(b, chunks + 1)

Init ==
    /\ chunks = 0
    /\ wildFree = FALSE
    /\ loads = 0
    /\ last = [wellFormed |-> FALSE, result |-> "NONE"]

Next ==
    \/ x509ac_create_from_file_load_failed
    \/ \E b \in Blobs : x509ac_create_from_file(b)

Spec == Init /\ [][Next]_vars

-----------------------------------------------------------------------------
(* No free() of an uninitialized pointer: destroy calls free on           *)
(* certificate.ptr after every failed parse (ac.c lines 621 and 645), and *)
(* the chunk it was handed is released.                                    *)
NoWildFree == ~wildFree /\ chunks = 0

(* x509ac_create_from_file and x509ac_create_from_chunk return the parsed *)
(* attribute certificate when the chunk holds a complete v2 one.          *)
WellFormedLoads == last.wellFormed => last.result = "AC"
=============================================================================
