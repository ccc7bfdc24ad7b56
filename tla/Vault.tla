-------------------------------- MODULE Vault --------------------------------
(***************************************************************************)
(* The vault of credentials (internal/mcp/credentials.go): one encrypted   *)
(* file, read and rewritten as a whole under registryMu, and the file of   *)
(* its key, which is read or made once in a process.  The keychain of      *)
(* darwin is not modelled, the cipher opens only what the same key sealed, *)
(* and a crash or a full disk leaves a file that was being written torn.   *)
(***************************************************************************)
EXTENDS Naturals

CONSTANTS Name, MaxKeys, MaxFaults      \* credentials; keys ever made, faults and crashes

VaultAssumption == MaxKeys \in Nat /\ MaxFaults \in Nat

VARIABLES
    keyFile,    \* .credential-key: a key, 0 when there is none or it is torn
    master,     \* masterKey: -1 before masterKeyOnce, 0 when it failed
    file,       \* .credentials.enc: its key (-1 no file, 0 torn) and the names in it
    op,         \* what holds registryMu
    made,       \* keys made
    faults,
    stored,     \* history: the names whose last StoreCredential or DeleteCredential stored
    excused     \* history: the vault was torn, or a file could not be read

vars == <<keyFile, master, file, op, made, faults, stored, excused>>

Unset == 0 - 1
Sealed(key, names) == [key |-> key, names |-> names]
NoFile == Sealed(Unset, {})
Torn == Sealed(0, {})
Idle == [pc |-> "idle", kind |-> "none", name |-> "none", names |-> {}]

Init ==
    /\ keyFile = 0 /\ master = Unset /\ file = NoFile /\ op = Idle
    /\ made = 0 /\ faults = 0 /\ stored = {} /\ excused = FALSE

Opens(key) == key > 0 /\ file.key = key

Fault == faults < MaxFaults /\ faults' = faults + 1
NoFault == UNCHANGED faults

-----------------------------------------------------------------------------
(* getMasterKey, when it is called first *)

\* The key is read from its file, and is there or torn; or reading it fails.
ReadKey ==
    /\ op.pc \in {"decrypt", "encrypt"} /\ master = Unset
    /\ \/ /\ keyFile > 0 /\ master' = keyFile
          /\ NoFault /\ UNCHANGED <<keyFile, op, made, excused>>
       \/ /\ \/ keyFile = 0 /\ NoFault /\ UNCHANGED excused
             \/ keyFile > 0 /\ Fault /\ excused' = TRUE
          /\ made < MaxKeys /\ made' = made + 1
          /\ op' = [op EXCEPT !.pc = IF op.pc = "decrypt" THEN "key_decrypt" ELSE "key_encrypt"]
          /\ keyFile' = 0           \* os.WriteFile truncates first
          /\ UNCHANGED master
    /\ UNCHANGED <<file, stored>>

After == IF op.pc = "key_decrypt" THEN "decrypt" ELSE "encrypt"

\* Fault: the key is used although it could not be written.
WriteKeyUnchecked ==
    /\ op.pc \in {"key_decrypt", "key_encrypt"}
    /\ op' = [op EXCEPT !.pc = After]
    /\ master' = made
    /\ \/ keyFile' = made /\ NoFault
       \/ Fault /\ UNCHANGED keyFile
    /\ UNCHANGED <<file, made, stored, excused>>

\* The new key is written before it is used.
WriteKey ==
    /\ op.pc \in {"key_decrypt", "key_encrypt"}
    /\ op' = [op EXCEPT !.pc = After]
    /\ \/ keyFile' = made /\ master' = made /\ NoFault
       \/ master' = 0 /\ Fault /\ UNCHANGED keyFile
    /\ UNCHANGED <<file, made, stored, excused>>

-----------------------------------------------------------------------------
(* storeEncrypted, getEncrypted and deleteEncrypted *)

Begin ==
    /\ op = Idle
    /\ \E kind \in {"store", "get", "delete"}, c \in Name :
         op' = [pc |-> "read", kind |-> kind, name |-> c, names |-> {}]
    /\ UNCHANGED <<keyFile, master, file, made, faults, stored, excused>>

\* A store goes on with nothing when there is no file or it cannot be read; the others end.
Read ==
    /\ op.pc = "read"
    /\ \/ /\ file # NoFile /\ NoFault
          /\ op' = [op EXCEPT !.pc = "decrypt"] /\ UNCHANGED <<stored, excused>>
       \/ /\ \/ file = NoFile /\ NoFault /\ UNCHANGED excused
             \/ file # NoFile /\ Fault /\ excused' = TRUE
          /\ op' = IF op.kind = "store" THEN [op EXCEPT !.pc = "encrypt"] ELSE Idle
          /\ stored' = IF op.kind = "delete" /\ file = NoFile
                         THEN stored \ {op.name} ELSE stored
    /\ UNCHANGED <<keyFile, master, file, made>>

\* What cannot be opened counts as nothing for a store, and is an error for the others.
Changed(names) == IF op.kind = "store" THEN names \cup {op.name} ELSE names \ {op.name}
Decrypt ==
    /\ op.pc = "decrypt" /\ master # Unset
    /\ op' = IF op.kind = "get" \/ (op.kind = "delete" /\ ~Opens(master)) THEN Idle
             ELSE [op EXCEPT !.pc = "encrypt", !.names = IF Opens(master) THEN file.names ELSE {}]
    /\ UNCHANGED <<keyFile, master, file, made, faults, stored, excused>>

\* Without a key the operation ends with an error; else os.WriteFile truncates the file.
Encrypt ==
    /\ op.pc = "encrypt" /\ master # Unset
    /\ IF master = 0 THEN op' = Idle /\ UNCHANGED file
       ELSE /\ op' = [op EXCEPT !.pc = "write", !.names = Changed(op.names)]
            /\ file' = Torn
    /\ UNCHANGED <<keyFile, master, made, faults, stored, excused>>

\* The new contents are written, or the disk is full.
Write ==
    /\ op.pc = "write" /\ op' = Idle
    /\ \/ /\ file' = Sealed(master, op.names) /\ NoFault
          /\ stored' = Changed(stored) /\ UNCHANGED excused
       \/ Fault /\ excused' = TRUE /\ UNCHANGED <<file, stored>>
    /\ UNCHANGED <<keyFile, master, made>>

\* The process ends, perhaps in the middle of an operation, and is started again.
Restart ==
    /\ Fault
    /\ master' = Unset /\ op' = Idle
    /\ excused' = (excused \/ op.pc = "write")
    /\ UNCHANGED <<keyFile, file, made, stored>>

Next == \/ ReadKey \/ WriteKey \/ Begin \/ Read \/ Decrypt \/ Encrypt \/ Write \/ Restart
Spec == Init /\ [][Next]_vars

-----------------------------------------------------------------------------
TypeOK ==
    /\ keyFile \in 0 .. MaxKeys /\ master \in Unset .. MaxKeys /\ made \in 0 .. MaxKeys
    /\ file \in [key : Unset .. MaxKeys, names : SUBSET Name]
    /\ op.pc \in {"idle", "read", "decrypt", "encrypt", "key_decrypt", "key_encrypt", "write"}
    /\ faults \in 0 .. MaxFaults /\ stored \subseteq Name /\ excused \in BOOLEAN

\* A credential that was stored can be read in this process and in the next one until it is
\* deleted, however the key was made, unless the vault was torn by a crash or a full disk or
\* a file could not be read (credentials.go:220 "saves a credential to the OS keychain,
\* falling back to AES-256-GCM").
StoredIsKept ==
    op = Idle /\ ~excused /\ stored # {} =>
        /\ Opens(keyFile) /\ stored \subseteq file.names
        /\ master \in {Unset, keyFile}
=============================================================================
