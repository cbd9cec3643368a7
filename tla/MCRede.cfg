\* Three addresses, so that a connection may bring another address than the last.
SPECIFICATION Spec
CONSTANT Enderecos = {e1, e2, e3}
INVARIANTS TypeOK ReconexaoPendente EstadoFiel FlagComEndereco
PROPERTY ReconectaEParte
