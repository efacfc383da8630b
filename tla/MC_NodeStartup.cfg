\* Five keys: at most four are in use at once (kubelet.key, kubelet.pem, the
\* CSR and the process's key), so a fresh one always exists.
CONSTANTS
  k1 = k1
  k2 = k2
  k3 = k3
  k4 = k4
  k5 = k5
  None = None
  Corrupt = Corrupt
  Keys = {k1, k2, k3, k4, k5}
SYMMETRY KeySymmetry
SPECIFICATION Spec
INVARIANTS
  KubeconfigCredentialsMatch
