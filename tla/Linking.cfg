SPECIFICATION LinkingSpec
CONSTANTS
    Aliases <- MCAliases
    Disk <- MCDisk
    ApiBaseUrl <- MCBase
    PathParams <- MCParams
    Queries = {"?page=1"}
    StoreNeedle <- MCNeedle
    LabelIncludes <- MCLabels
    ComposableLabel <- MCComposable
    MapperOf <- MCMapperOf
    RepositoryName = {"UserRepository"}
    DtoSuffixed = {"UserDto", "OrderDto"}
    Argument <- MCArgument
    Element <- MCElement
    Projects <- MCProjects
    MaxWatched = 2
INVARIANTS LinksExact DtoExact TreesExact
