SPECIFICATION StartSpec
CONSTANT Envs <- MCEnvs
INVARIANT InvalidFailsFast
