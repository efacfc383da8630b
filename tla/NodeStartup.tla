---------------------------- MODULE NodeStartup ----------------------------
(***************************************************************************)
(* The kubelet's start-up before the pod workers run (cmd/app/kubelet.go   *)
(* RunE): BootStrap (src/pkg/bootstrap) obtains a client certificate       *)
(* through a CertificateSigningRequest unless ./cert/kubelet.config exists,*)
(* then RegisterNode (src/pkg/node) creates the Node object if missing and *)
(* patches its status.  Every error ends the process (RunE returns it, or  *)
(* klog.Fatal), and the process may also crash at any point; the          *)
(* supervisor starts it again.  Files on disk and the objects on the API   *)
(* server survive; the process's memory does not.                          *)
(*                                                                         *)
(* Outside the process: an administrator (or an approver) approves or      *)
(* denies the pending CSR, and the CSR is deleted by hand or by the CSR    *)
(* cleaner of the controller manager.  A transient API error is a          *)
(* nondeterministic alternative of each request.  os.WriteFile truncates   *)
(* then writes, so a crash while writing leaves the old content or a       *)
(* corrupt file.  Keys are only compared for equality: a certificate is    *)
(* identified by the key it certifies, and a CSR's UID by the key it was   *)
(* made from (each attempt makes a fresh key).                             *)
(***************************************************************************)
EXTENDS Naturals

CONSTANTS
  Keys,      \* private keys ecdsa.GenerateKey may return
  None,      \* no file, no object
  Corrupt    \* a file a crash left half-written

VARIABLES
  pc,        \* the step of RunE the process is at
  keyFile,   \* ./cert/kubelet.key: a key, None or Corrupt
  pemFile,   \* ./cert/kubelet.pem: the key its certificate is for, None or Corrupt
  config,    \* ./cert/kubelet.config: "none", "corrupt" or "ok"
  csr,       \* the CSR named nodeName: None or [key, state]
  node,      \* the Node object: "none", "created" or "ready"
  mem        \* the process's memory: its key and the CSR (by key) it waits for

vars == <<pc, keyFile, pemFile, config, csr, node, mem>>

Pcs == {"start", "genkey", "savekey", "create", "wait", "writepem", "genconfig",
        "testclient", "client", "register", "createnode", "patch", "running", "exit"}
NoMem == [key |-> None, uid |-> None]

\* the key pair the kubeconfig points to loads (tls.X509KeyPair checks that
\* the certificate is for the private key)
Credentials == keyFile \in Keys /\ pemFile = keyFile

Init ==
  /\ pc = "start"
  /\ keyFile = None /\ pemFile = None /\ config = "none"
  /\ csr = None /\ node = "none"
  /\ mem = NoMem

Goto(p) == pc' = p

\* util.NeedRequestCSR: bootstrap only when no kubeconfig file exists
Start ==
  /\ pc = "start"
  /\ Goto(IF config = "none" THEN "genkey" ELSE "client")
  /\ UNCHANGED <<keyFile, pemFile, config, csr, node, mem>>

\* keys in use anywhere; a generated key is never one of them
InUse == {keyFile, pemFile, mem.key, mem.uid} \cup (IF csr = None THEN {} ELSE {csr.key})

\* GenCSRPEM: ecdsa.GenerateKey, then savePrivateKeyToFile removes the file
GenKey ==
  /\ pc = "genkey"
  /\ \E k \in Keys \ InUse : mem' = [mem EXCEPT !.key = k]
  /\ keyFile' = None
  /\ Goto("savekey")
  /\ UNCHANGED <<pemFile, config, csr, node>>

\* savePrivateKeyToFile's os.WriteFile, then cert.MakeCSRFromTemplate
SaveKey ==
  /\ pc = "savekey"
  /\ keyFile' = mem.key
  /\ Goto("create")
  /\ UNCHANGED <<pemFile, config, csr, node, mem>>

\* (mutant) an existing CSR of the name is taken over instead of failing
CreateCSRCertAdopt ==
  /\ pc = "create"
  /\ \/ /\ csr = None
        /\ csr' = [key |-> mem.key, state |-> "pending"]
        /\ mem' = [mem EXCEPT !.uid = mem.key]
        /\ Goto("wait")
     \/ /\ csr # None
        /\ mem' = [mem EXCEPT !.uid = csr.key]
        /\ Goto("wait") /\ UNCHANGED csr
  /\ UNCHANGED <<keyFile, pemFile, config, node>>

\* CreateCSRCert: Create the CSR named nodeName; AlreadyExists or another
\* error is returned by BootStrap and ends the process
CreateCSRCert ==
  /\ pc = "create"
  /\ \/ /\ csr = None
        /\ csr' = [key |-> mem.key, state |-> "pending"]
        /\ mem' = [mem EXCEPT !.uid = mem.key]
        /\ Goto("wait")
     \/ Goto("exit") /\ UNCHANGED <<csr, mem>>
  /\ UNCHANGED <<keyFile, pemFile, config, node>>

\* WaitForCSRApprove: csr.WaitForCertificate returns the certificate once
\* the CSR with this name and UID is approved and issued
WaitApproved ==
  /\ pc = "wait"
  /\ csr # None /\ csr.key = mem.uid /\ csr.state = "approved"
  /\ Goto("writepem")
  /\ UNCHANGED <<keyFile, pemFile, config, csr, node, mem>>

\* the 60s context expires (or the CSR is denied): the error ends the process
WaitTimeout ==
  /\ pc = "wait"
  /\ Goto("exit")
  /\ UNCHANGED <<keyFile, pemFile, config, csr, node, mem>>

\* WaitForCSRApprove writes the certificate to ./cert/kubelet.pem
WritePem ==
  /\ pc = "writepem"
  /\ pemFile' = mem.uid
  /\ Goto("genconfig")
  /\ UNCHANGED <<keyFile, config, csr, node, mem>>

\* GenKubeletConfig writes the kubeconfig naming kubelet.pem and kubelet.key
GenKubeletConfig ==
  /\ pc = "genconfig"
  /\ config' = "ok"
  /\ Goto("testclient")
  /\ UNCHANGED <<keyFile, pemFile, csr, node, mem>>

\* common.NewForKubeletConfig and ServerVersion: the client loads the key
\* pair; the request may fail
TestClient ==
  /\ pc = "testclient"
  /\ Goto(IF Credentials THEN "client" ELSE "exit") \/ Goto("exit")
  /\ UNCHANGED <<keyFile, pemFile, config, csr, node, mem>>

\* RunE step 3: common.NewForKubeletConfig
NewClient ==
  /\ pc = "client"
  /\ Goto(IF config = "ok" /\ Credentials THEN "register" ELSE "exit")
  /\ UNCHANGED <<keyFile, pemFile, config, csr, node, mem>>

\* RegisterNode: Get; NotFound leads to Create, any other error falls
\* through to the status patch with the empty object Get returned
RegisterGet ==
  /\ pc = "register"
  /\ Goto(IF node = "none" THEN "createnode" ELSE "patch") \/ Goto("patch")
  /\ UNCHANGED <<keyFile, pemFile, config, csr, node, mem>>

\* Create; an error is fatal
CreateNode ==
  /\ pc = "createnode"
  /\ \/ node' = "created" /\ Goto("patch")
     \/ Goto("exit") /\ UNCHANGED node
  /\ UNCHANGED <<keyFile, pemFile, config, csr, mem>>

\* setNodeStatus: node info, daemon endpoint, address, capacity and the
\* conditions, of which Ready is True; the model keeps the readiness
SetNodeStatus == "ready"

\* the status Patch; an error (NotFound for
\* a node that does not exist) is fatal.  The lease controller and
\* SampleKubelet.Start follow.
PatchStatus ==
  /\ pc = "patch"
  /\ \/ node # "none" /\ node' = SetNodeStatus /\ Goto("running")
     \/ Goto("exit") /\ UNCHANGED node
  /\ UNCHANGED <<keyFile, pemFile, config, csr, mem>>

\* the process ended with an error; the supervisor starts it again
Restart ==
  /\ pc = "exit"
  /\ Goto("start") /\ mem' = NoMem
  /\ UNCHANGED <<keyFile, pemFile, config, csr, node>>

\* the process dies at any step; a file being written by os.WriteFile is
\* left as it was or corrupt
Torn(file, writing) == IF writing THEN {file, Corrupt} ELSE {file}
Crash ==
  /\ pc \notin {"start", "exit"}
  /\ \E kf \in Torn(keyFile, pc = "savekey"), pf \in Torn(pemFile, pc = "writepem"),
        cf \in IF pc = "genconfig" THEN {config, "corrupt"} ELSE {config} :
       keyFile' = kf /\ pemFile' = pf /\ config' = cf
  /\ Goto("start") /\ mem' = NoMem
  /\ UNCHANGED <<csr, node>>

\* kubectl certificate approve (the signer then issues the certificate)
Approve ==
  /\ csr # None /\ csr.state = "pending"
  /\ csr' = [csr EXCEPT !.state = "approved"]
  /\ UNCHANGED <<pc, keyFile, pemFile, config, node, mem>>

\* kubectl certificate deny
Deny ==
  /\ csr # None /\ csr.state = "pending"
  /\ csr' = [csr EXCEPT !.state = "denied"]
  /\ UNCHANGED <<pc, keyFile, pemFile, config, node, mem>>

\* kubectl delete csr, or the controller manager's CSR cleaner
DeleteCsr ==
  /\ csr # None
  /\ csr' = None
  /\ UNCHANGED <<pc, keyFile, pemFile, config, node, mem>>

\* BootStrap: the steps in the order the function takes them
BootStrap ==
  \/ Start \/ GenKey \/ SaveKey \/ CreateCSRCert \/ WaitApproved \/ WaitTimeout
  \/ WritePem \/ GenKubeletConfig \/ TestClient

\* RunE: BootStrap, the client, RegisterNode
Process ==
  \/ BootStrap \/ NewClient \/ RegisterGet \/ CreateNode \/ PatchStatus
  \/ Restart \/ Crash

Next == Process \/ Approve \/ Deny \/ DeleteCsr

Spec == Init /\ [][Next]_vars

-----------------------------------------------------------------------------
(* Properties                                                              *)

Files == Keys \cup {None, Corrupt}

TypeOK ==
  /\ pc \in Pcs
  /\ keyFile \in Files /\ pemFile \in Files
  /\ config \in {"none", "corrupt", "ok"}
  /\ csr \in {None} \cup [key : Keys, state : {"pending", "approved", "denied"}]
  /\ node \in {"none", "created", "ready"}
  /\ mem \in [key : Keys \cup {None}, uid : Keys \cup {None}]

\* A complete kubeconfig always names a certificate and a private key that
\* belong together, whatever attempts timed out, crashed or were refused
\* before: every attempt writes a fresh kubelet.key before it creates its
\* CSR, so only the certificate of a CSR made from the key on disk may be
\* written, and the AlreadyExists of an earlier attempt's CSR ends the
\* attempt.  A kubeconfig that breaks this is never rewritten
\* (NeedRequestCSR skips bootstrap), so the node could never start again.
KubeconfigCredentialsMatch ==
  config = "ok" => Credentials
====
